---- MODULE Spec2Model ----
(***************************************************************************)
(* Resource lifecycle and frame synchronisation of the class-based Vulkan  *)
(* triangle program (class VulkanApp).                                     *)
(*                                                                         *)
(* The CPU side is the single control thread of VulkanApp::run(); the GPU  *)
(* side is the asynchronous completion of queue submissions.  Every Vulkan *)
(* object is a handle <<kind, generation, index>>; the driver state keeps  *)
(* which handles are live, the state of every fence and the submissions    *)
(* that are in flight.                                                     *)
(***************************************************************************)
EXTENDS Integers, Sequences, FiniteSets, TLC

\* ---------------------------------------------------------------- bounds
MaxFrames == 3        \* calls of renderFrame explored
MaxResizes == 1       \* valid resize notifications explored
MaxImages == 3        \* largest image count the driver hands out
MaxFailures == 1      \* failed rebuilds explored
MaxStaleFrames == 1   \* calls of renderFrame explored after a failed rebuild
MaxSteadyFrames == 10 \* calls of renderFrame explored in a run without resizes
MaxDevices == 2       \* physical devices of a machine
MaxModes == 3         \* present modes a surface reports
MaxFormats == 3       \* formats a surface reports
MaxMemoryTypes == 3
MaxWrapFrames == 5      \* calls of renderFrame followed across the wrap of the counter   \* memory types of a physical device

\* ------------------------------------------------------ program constants
InitWidth == 800
InitHeight == 600

\* --------------------------------------------------------------- handles
H(kind, g, i) == <<kind, g, i>>
NULL == <<"null", 0, 0>>          \* VK_NULL_HANDLE, value-initialised member
GARBAGE == <<"garbage", 0, 0>>    \* indeterminate member / out-of-bounds read

\* struct SwapChainEntry, value-initialised by vector::resize
NullEntry ==
  [image |-> NULL, view |-> NULL, msaaImage |-> NULL, msaaMemory |-> NULL,
   msaaView |-> NULL, imageAvailableSem |-> NULL, renderFinishedSem |-> NULL,
   fence |-> NULL]

\* std::vector<T>::resize(n): keeps the first n elements, appends
\* value-initialised ones
Resize(v, n, fill) == [i \in 1..n |-> IF i <= Len(v) THEN v[i] ELSE fill]

\* The members of a default-constructed VulkanApp: the handles have no
\* initialiser (indeterminate), window is nullptr, the vectors are empty.
NewApp ==
  [window |-> NULL, instance |-> GARBAGE, surface |-> GARBAGE,
   device |-> GARBAGE, vkSwapChain |-> GARBAGE, swapChain |-> <<>>,
   vertexShader |-> GARBAGE, fragShader |-> GARBAGE, renderPass |-> GARBAGE,
   pipelineLayout |-> GARBAGE, graphicsPipeline |-> GARBAGE,
   frameBuffers |-> <<>>, commandPool |-> GARBAGE, commandBuffers |-> <<>>,
   graphicsQueue |-> GARBAGE, presentationQueue |-> GARBAGE]

\* -------------------------------------------------- steps of the builders
\* A builder is the sequence of the steps it runs.  A step is
\*   "create": a driver call that creates one object and stores the handle
\*             in a member (field, idx); it can fail,
\*   "check" : a call that creates nothing and can fail,
\*   "resize": a vector resize (cannot fail),
\*   "alloc" : vkAllocateCommandBuffers, fills the whole vector; can fail.
Create(call, kind, field, idx) ==
  [op |-> "create", call |-> call, kind |-> kind, field |-> field, idx |-> idx]
Check(call) ==
  [op |-> "check", call |-> call, kind |-> "none", field |-> "none", idx |-> 0]
ResizeStep(field, n) ==
  [op |-> "resize", call |-> "resize", kind |-> "none", field |-> field, idx |-> n]
Alloc(call, n) ==
  [op |-> "alloc", call |-> call, kind |-> "commandBuffer",
   field |-> "commandBuffers", idx |-> n]

\* the result of glfwCreateWindow is not tested by initGlFw
Fallible(s) == s.op # "resize" /\ s.call # "glfwCreateWindow"

RECURSIVE Flatten(_)
Flatten(ss) == IF ss = <<>> THEN <<>> ELSE Head(ss) \o Flatten(Tail(ss))

initGlFw ==
  << Create("glfwCreateWindow", "window", "window", 0),
     Check("glfwVulkanSupported") >>

initVulkanInstance == << Create("vkCreateInstance", "instance", "instance", 0) >>

createSurface == << Create("glfwCreateWindowSurface", "surface", "surface", 0) >>

choosePhysicalDevice == << Check("choosePhysicalDevice") >>

createLogicalDevice == << Create("vkCreateDevice", "device", "device", 0) >>

\* one iteration of the loop over the entries in createSwapChain
createSwapChainEntry(i) ==
  << Create("vkCreateImageView", "view", "view", i),
     Create("vkCreateSemaphore", "imageAvailableSem", "imageAvailableSem", i),
     Create("vkCreateSemaphore", "renderFinishedSem", "renderFinishedSem", i),
     Create("vkCreateFence", "fence", "fence", i),
     Create("vkCreateImage", "msaaImage", "msaaImage", i),
     Create("vkAllocateMemory", "msaaMemory", "msaaMemory", i),
     Create("vkCreateImageView", "msaaView", "msaaView", i) >>

\* a swapchain builder that makes one slot less than the driver reports
createSwapChainOneShort(size) ==
  << Create("vkCreateSwapchainKHR", "swapchain", "vkSwapChain", size),
     ResizeStep("swapChain", size - 1) >>
  \o Flatten([i \in 1..(size - 1) |-> createSwapChainEntry(i)])

\* size is the image count the driver reports for the new swapchain
createSwapChain(size) ==
  << Create("vkCreateSwapchainKHR", "swapchain", "vkSwapChain", size),
     ResizeStep("swapChain", size) >>
  \o Flatten([i \in 1..size |-> createSwapChainEntry(i)])

loadShaders ==
  << Check("readFile vertex.spv"),
     Create("vkCreateShaderModule", "vertexShader", "vertexShader", 0),
     Check("readFile fragment.spv"),
     Create("vkCreateShaderModule", "fragShader", "fragShader", 0) >>

createRenderPass == << Create("vkCreateRenderPass", "renderPass", "renderPass", 0) >>

createPipeline ==
  << Create("vkCreatePipelineLayout", "pipelineLayout", "pipelineLayout", 0),
     Create("vkCreateGraphicsPipelines", "pipeline", "graphicsPipeline", 0) >>

\* a framebuffer builder that makes one framebuffer less than there are
\* entries
createFrameBuffersOneShort(size) ==
  << ResizeStep("frameBuffers", size - 1) >>
  \o [i \in 1..(size - 1) |->
        Create("vkCreateFramebuffer", "framebuffer", "frameBuffers", i)]

\* frameBuffers.resize(swapChain.size()), then one framebuffer per entry
createFrameBuffers(size) ==
  << ResizeStep("frameBuffers", size) >>
  \o [i \in 1..size |-> Create("vkCreateFramebuffer", "framebuffer", "frameBuffers", i)]

\* a command pool is created by every call; the vector is resized before
\* vkAllocateCommandBuffers fills it
createCommandBuffers(size) ==
  << Create("vkCreateCommandPool", "commandPool", "commandPool", 0),
     ResizeStep("commandBuffers", size),
     Alloc("vkAllocateCommandBuffers", size) >>

setupCommandBuffers(size) == [i \in 1..size |-> Check("vkEndCommandBuffer")]

\* a rebuild that makes a new logical device first
rebuildStepsWithDevice(size) ==
  createLogicalDevice \o createSwapChain(size) \o loadShaders \o createRenderPass
  \o createPipeline \o createFrameBuffers(size) \o createCommandBuffers(size)
  \o setupCommandBuffers(size)

\* the steps shared by init() and recreateSwapChain(), in the order of the
\* || chains
rebuildSteps(size) ==
  createSwapChain(size) \o loadShaders \o createRenderPass \o createPipeline
  \o createFrameBuffers(size) \o createCommandBuffers(size)
  \o setupCommandBuffers(size)

initSteps(size) ==
  initGlFw \o initVulkanInstance \o createSurface \o choosePhysicalDevice
  \o createLogicalDevice \o rebuildSteps(size)

\* ------------------------------------------------------------ the driver
\* live      handles that exist
\* created   every handle ever created
\* destroyed every handle a destroy/free call has released
\* signaled  fences in the signaled state
\* seen      fences the CPU has observed signaled since their last reset
\* inflight  submissions the CPU has not yet observed complete:
\*           [fence, cb, waitSem, signalSem, done, blocked, n]; done = the GPU has finished
\*           it, blocked = it waits on a semaphore nothing will signal,
\*           n = its position in submission order
\* sems      binary semaphores that hold a signal no wait has consumed
\* presents  semaphores a queued presentation request waits on
\* misuse    invalid uses of a handle: <<call, reason>>
\* crashed   the process has faulted inside a driver call
\* stuck     the handler is inside a wait that cannot return in this state
\* calls     the driver calls of the handler that ran last:
\*           <<call, handle, result, handles>>: the object the call is
\*           about, what it returned, every handle it was given
NewDriver ==
  [live |-> {}, created |-> {}, destroyed |-> {}, signaled |-> {},
   seen |-> {}, inflight |-> {}, misuse |-> {}, crashed |-> FALSE,
   stuck |-> FALSE, calls |-> <<>>, allocations |-> {}, createInfos |-> {},
   sems |-> {}, presents |-> {}]

Pending(d) == {s \in d.inflight : ~s.done}

SlotFields ==
  {"view", "imageAvailableSem", "renderFinishedSem", "fence", "msaaImage",
   "msaaMemory", "msaaView"}

\* the members after step s of generation g has succeeded
StepApp(st, s, g) ==
  CASE s.op = "create" /\ s.field \in SlotFields ->
         [st EXCEPT !.swapChain[s.idx][s.field] = H(s.kind, g, s.idx)]
    [] s.op = "create" /\ s.field = "frameBuffers" ->
         [st EXCEPT !.frameBuffers[s.idx] = H(s.kind, g, s.idx)]
    [] s.op = "create" /\ s.field \notin SlotFields \cup {"frameBuffers"} ->
         [st EXCEPT ![s.field] = H(s.kind, g, s.idx)]
    [] s.op = "resize" /\ s.field = "swapChain" ->
         \* swapChain.resize(size); swapChain[i].image = images[i]
         [st EXCEPT !.swapChain =
            [i \in 1..s.idx |->
               [Resize(st.swapChain, s.idx, NullEntry)[i]
                  EXCEPT !.image = H("image", g, i)]]]
    [] s.op = "resize" /\ s.field # "swapChain" ->
         [st EXCEPT ![s.field] = Resize(st[s.field], s.idx, NULL)]
    [] s.op = "alloc" ->
         [st EXCEPT !.commandBuffers =
            [i \in 1..s.idx |-> H("commandBuffer", g, i)]]
    [] OTHER -> st

\* the handles step s of generation g creates
StepHandles(s, g) ==
  CASE s.op = "create" -> {H(s.kind, g, s.idx)}
    [] s.op = "alloc" -> {H("commandBuffer", g, i) : i \in 1..s.idx}
    [] OTHER -> {}

\* a driver that creates every fence unsignaled
StepDriverUnsignaled(d, s, g) ==
  [d EXCEPT !.live = @ \cup StepHandles(s, g),
            !.created = @ \cup StepHandles(s, g),
            !.calls = IF s.op = "resize" THEN @
                      ELSE IF s.op = "create"
                      THEN Append(@, <<s.call, H(s.kind, g, s.idx), "VK_SUCCESS", {}>>)
                      ELSE Append(@, <<s.call, NULL, "VK_SUCCESS", {}>>)]

\* the driver after step s has succeeded; a fence is created signaled
StepDriver(d, s, g) ==
  [d EXCEPT !.live = @ \cup StepHandles(s, g),
            !.created = @ \cup StepHandles(s, g),
            !.signaled = IF s.kind = "fence" THEN @ \cup StepHandles(s, g) ELSE @,
            !.calls = IF s.op = "resize" THEN @
                      ELSE IF s.op = "create"
                      THEN Append(@, <<s.call, H(s.kind, g, s.idx), "VK_SUCCESS", {}>>)
                      ELSE Append(@, <<s.call, NULL, "VK_SUCCESS", {}>>)]

\* the steps lo..hi of a builder succeed, one after the other (the range is
\* halved to keep the evaluation shallow); a faulted process runs nothing
RECURSIVE RunSteps(_, _, _, _, _)
RunSteps(steps, lo, hi, r, g) ==
  IF lo > hi THEN r
  ELSE IF lo = hi
  THEN [app |-> StepApp(r.app, steps[lo], g), drv |-> StepDriver(r.drv, steps[lo], g)]
  ELSE LET mid == (lo + hi) \div 2
           left == RunSteps(steps, lo, mid, r, g)
       IN IF left.drv.crashed THEN left ELSE RunSteps(steps, mid + 1, hi, left, g)

\* a builder that notes the failure of step f and runs the steps after it
BuildPastFailure(steps, f, st, d, g) ==
  LET r == RunSteps(steps, 1, f - 1, [app |-> st, drv |-> d], g)
      e == [r EXCEPT !.drv.calls = Append(@, <<steps[f].call, NULL, "error", {}>>)]
      t == RunSteps(steps, f + 1, Len(steps), e, g)
  IN IF f > Len(steps) THEN [ok |-> TRUE, app |-> r.app, drv |-> r.drv]
     ELSE [ok |-> FALSE, app |-> t.app, drv |-> t.drv]

\* A builder whose step f fails (f = Len(steps) + 1: none fails): the steps
\* before f have run, step f was called and returned an error, and the ||
\* chain skips the rest.
Build(steps, f, st, d, g) ==
  LET r == RunSteps(steps, 1, f - 1, [app |-> st, drv |-> d], g)
  IN IF f > Len(steps) THEN [ok |-> TRUE, app |-> r.app, drv |-> r.drv]
     ELSE [ok |-> FALSE, app |-> r.app,
           drv |-> [r.drv EXCEPT !.calls = Append(@, <<steps[f].call, NULL, "error", {}>>)]]

FailPoints(steps) ==
  {f \in 1..Len(steps) : Fallible(steps[f])} \cup {Len(steps) + 1}

\* ------------------------------------------------- calls on the driver
\* A call that is handed a handle which is not live has undefined
\* behaviour.  Its outcomes: with mode "fault" the process faults in the
\* call; with mode "stale" a call on a destroyed object acts on the stale
\* object as if it were alive and a call on an indeterminate handle is
\* rejected without effect.  A call that has to dereference VK_NULL_HANDLE
\* faults in both modes.
Modes == {"fault", "stale"}

Reason(d, h) ==
  IF h = NULL THEN "null" ELSE IF h = GARBAGE THEN "garbage" ELSE "destroyed"

Faults(d, hs, mode) ==
  \E h \in hs : h \notin d.live /\ (mode = "fault" \/ h = NULL)

Rejected(d, hs) == GARBAGE \in hs

\* the handles a handler passes to the driver
HandlesOf(st) ==
  {st.device, st.vkSwapChain, st.vertexShader, st.fragShader, st.renderPass,
   st.pipelineLayout, st.graphicsPipeline, st.commandPool}
  \cup {st.commandBuffers[i] : i \in 1..Len(st.commandBuffers)}
  \cup {st.frameBuffers[i] : i \in 1..Len(st.frameBuffers)}
  \cup UNION {{st.swapChain[i][f] : f \in SlotFields} : i \in 1..Len(st.swapChain)}

\* the outcomes differ only when some handle is not live
ModesFor(st, d) ==
  IF HandlesOf(st) \subseteq d.live /\ Len(st.frameBuffers) = Len(st.swapChain)
  THEN {"fault"} ELSE Modes

\* the bookkeeping every call shares: log it, record invalid handles
Enter(d, call, h, hs, mode, res) ==
  [d EXCEPT !.calls = Append(@, <<call, h, IF Faults(d, hs, mode) THEN "fault" ELSE res, hs>>),
            !.misuse = @ \cup {<<call, Reason(d, x)>> : x \in {y \in hs : y \notin d.live}},
            !.crashed = Faults(d, hs, mode)]

\* a wait that returns at once, whatever the state of the fence
vkWaitForFencesNoBlock(d, fence, mode) ==
  IF d.crashed \/ d.stuck THEN d
  ELSE LET e == Enter(d, "vkWaitForFences", fence, {fence}, mode, "VK_TIMEOUT")
       IN IF e.crashed \/ Rejected(d, {fence}) \/ fence \notin d.signaled THEN e
          ELSE [e EXCEPT !.seen = @ \cup {fence},
                         !.inflight = {s \in @ : ~(s.fence = fence /\ s.done)}]

\* vkWaitForFences(device, 1, &fence, VK_TRUE, UINT64_MAX): returns once
\* the fence is signaled; the CPU has then observed the submission that
\* armed it
vkWaitForFences(d, fence, mode) ==
  IF d.crashed \/ d.stuck THEN d
  ELSE LET e == Enter(d, "vkWaitForFences", fence, {fence}, mode, "VK_SUCCESS")
       IN IF e.crashed \/ Rejected(d, {fence}) THEN e
          ELSE IF fence \notin d.signaled THEN [d EXCEPT !.stuck = TRUE]
          ELSE [e EXCEPT !.seen = @ \cup {fence},
                         !.inflight = {s \in @ : ~(s.fence = fence /\ s.done)}]

vkResetFences(d, fence, mode) ==
  IF d.crashed \/ d.stuck THEN d
  ELSE LET e == Enter(d, "vkResetFences", fence, {fence}, mode, "VK_SUCCESS")
       IN IF e.crashed \/ Rejected(d, {fence}) THEN e
          ELSE [e EXCEPT !.signaled = @ \ {fence}, !.seen = @ \ {fence}]

\* vkDeviceWaitIdle(device): returns once no submission is executing
vkDeviceWaitIdle(d, device, mode) ==
  IF d.crashed \/ d.stuck THEN d
  ELSE LET e == Enter(d, "vkDeviceWaitIdle", device, {device}, mode, "VK_SUCCESS")
       IN IF e.crashed THEN e
          ELSE IF Pending(d) # {} THEN [d EXCEPT !.stuck = TRUE]
          ELSE e

\* every vkDestroy* / vkFree* call: destroying VK_NULL_HANDLE is a valid
\* no-op; an object destroyed while a submission executes is in use
Destroy(d, call, h, mode) ==
  IF d.crashed \/ d.stuck THEN d
  ELSE LET e == Enter(d, call, h, {h} \ {NULL}, mode, "void")
       IN IF e.crashed \/ h \notin d.live THEN e
          ELSE [e EXCEPT !.live = @ \ {h},
                         !.destroyed = @ \cup {h},
                         !.sems = @ \ {h},
                         !.presents = @ \ {h},
                         !.misuse = IF Pending(d) # {}
                                    THEN @ \cup {<<call, "in use">>} ELSE @]

\* the destroy calls cs[lo..hi], one after the other
RECURSIVE DestroyRange(_, _, _, _, _)
DestroyRange(d, cs, lo, hi, mode) ==
  IF lo > hi THEN d
  ELSE IF lo = hi THEN Destroy(d, cs[lo][1], cs[lo][2], mode)
  ELSE LET mid == (lo + hi) \div 2
           left == DestroyRange(d, cs, lo, mid, mode)
       IN IF left.crashed THEN left ELSE DestroyRange(left, cs, mid + 1, hi, mode)

DestroyAll(d, cs, mode) == DestroyRange(d, cs, 1, Len(cs), mode)

\* ------------------------------------------------------------- handlers
\* for (auto & swpe : swapChain) vkWaitForFences(swpe.fence);
\* vkDeviceWaitIdle(device);
RECURSIVE waitFences(_, _, _, _)
waitFences(st, d, n, mode) ==
  IF n = 0 THEN d
  ELSE vkWaitForFences(waitFences(st, d, n - 1, mode), st.swapChain[n].fence, mode)

\* an idle wait that leaves the fences out
waitForIdleDeviceOnly(st, d, mode) == vkDeviceWaitIdle(d, st.device, mode)

waitForIdle(st, d, mode) ==
  vkDeviceWaitIdle(waitFences(st, d, Len(st.swapChain), mode), st.device, mode)

\* the destroy calls of cleanupSwapChain, in program order
cleanupEntry(e) ==
  << <<"vkDestroyFence", e.fence>>,
     <<"vkDestroySemaphore", e.imageAvailableSem>>,
     <<"vkDestroySemaphore", e.renderFinishedSem>>,
     <<"vkDestroyImageView", e.view>>,
     <<"vkDestroyImageView", e.msaaView>>,
     <<"vkFreeMemory", e.msaaMemory>>,
     <<"vkDestroyImage", e.msaaImage>> >>

\* a teardown that destroys the swapchain object first
cleanupSwapChainCallsSwapchainFirst(st) ==
  << <<"vkDestroySwapchainKHR", st.vkSwapChain>> >>
  \o [i \in 1..Len(st.commandBuffers) |-> <<"vkFreeCommandBuffers", st.commandBuffers[i]>>]
  \o [i \in 1..Len(st.swapChain) |->
        <<"vkDestroyFramebuffer",
          IF i <= Len(st.frameBuffers) THEN st.frameBuffers[i] ELSE GARBAGE>>]
  \o << <<"vkDestroyPipeline", st.graphicsPipeline>>,
        <<"vkDestroyPipelineLayout", st.pipelineLayout>>,
        <<"vkDestroyRenderPass", st.renderPass>>,
        <<"vkDestroyShaderModule", st.fragShader>>,
        <<"vkDestroyShaderModule", st.vertexShader>> >>
  \o Flatten([i \in 1..Len(st.swapChain) |-> cleanupEntry(st.swapChain[i])])

cleanupSwapChainCalls(st) ==
  [i \in 1..Len(st.commandBuffers) |-> <<"vkFreeCommandBuffers", st.commandBuffers[i]>>]
  \o [i \in 1..Len(st.swapChain) |->
        <<"vkDestroyFramebuffer",
          IF i <= Len(st.frameBuffers) THEN st.frameBuffers[i] ELSE GARBAGE>>]
  \o << <<"vkDestroyPipeline", st.graphicsPipeline>>,
        <<"vkDestroyPipelineLayout", st.pipelineLayout>>,
        <<"vkDestroyRenderPass", st.renderPass>>,
        <<"vkDestroyShaderModule", st.fragShader>>,
        <<"vkDestroyShaderModule", st.vertexShader>> >>
  \o Flatten([i \in 1..Len(st.swapChain) |-> cleanupEntry(st.swapChain[i])])
  \o << <<"vkDestroySwapchainKHR", st.vkSwapChain>> >>

cleanupSwapChain(st, d, mode) == DestroyAll(d, cleanupSwapChainCalls(st), mode)

cleanupCalls(st) ==
  << <<"vkDestroyCommandPool", st.commandPool>>,
     <<"vkDestroySurfaceKHR", st.surface>>,
     <<"vkDestroyDevice", st.device>>,
     <<"vkDestroyInstance", st.instance>>,
     <<"glfwDestroyWindow", st.window>> >>

cleanup(st, d, mode) ==
  DestroyAll(cleanupSwapChain(st, d, mode), cleanupCalls(st), mode)

\* ------------------------------------------------------ device profile
\* A uint32_t is held as the integer that has the same 32 bits: 0 to
\* 2^31 - 1 are themselves and 2^31 to 2^32 - 1 are -2^31 to -1, so that
\* 0xFFFFFFFF is -1.
\* the "extent is decided by the swapchain" sentinel of currentExtent
UINT_MAX == -1

\* x + 1 on a uint32_t
Succ32(x) == IF x = 2147483647 THEN -2147483647 - 1 ELSE x + 1

\* a < b on two uint32_t
Less32(a, b) == IF (a < 0) = (b < 0) THEN a < b ELSE b < 0

\* x % k on a uint32_t x and a k of 1..65536: a negative x holds the value
\* x + 2^32, and 2^32 is 65536 * 65536
Mod32(x, k) ==
  IF x >= 0 THEN x % k
  ELSE ((x % k) + (((65536 % k) * (65536 % k)) % k)) % k

Min(a, b) == IF Less32(b, a) THEN b ELSE a
Max(a, b) == IF Less32(a, b) THEN b ELSE a

\* updateExtent(): width and height are what glfwGetFramebufferSize
\* reports; the two assignments that end the function overwrite the
\* result of the branch above them
updateExtent(di, capabilities, width, height) ==
  LET clamped ==
        IF capabilities.currentExtent.width # UINT_MAX
        THEN capabilities.currentExtent
        ELSE [width |-> Max(capabilities.minImageExtent.width,
                            Min(capabilities.maxImageExtent.width, width)),
              height |-> Max(capabilities.minImageExtent.height,
                             Min(capabilities.maxImageExtent.height, height))]
  IN [di EXCEPT !.capabilities = capabilities,
                !.extent = [[clamped EXCEPT !.width = width] EXCEPT !.height = height]]

\* the image count choosePhysicalDevice derives from the capabilities
imgCount(capabilities) ==
  IF Less32(0, capabilities.maxImageCount)
  THEN Min(capabilities.maxImageCount, Succ32(capabilities.minImageCount))
  ELSE Succ32(capabilities.minImageCount)

\* devInfo as choosePhysicalDevice leaves it for the selected device
selectedDevInfo(di, capabilities, width, height) ==
  [updateExtent(di, capabilities, width, height)
     EXCEPT !.imageCount = imgCount(capabilities)]

NoExtent == [width |-> 0, height |-> 0]

\* devInfo after construction: device is VK_NULL_HANDLE, the other members
\* have no initialiser (deviceFeatures 0: the features of no device)
NewDevInfo ==
  [device |-> 0, deviceFeatures |-> 0,
   capabilities |-> [minImageCount |-> 0, maxImageCount |-> 0,
                     currentExtent |-> NoExtent, minImageExtent |-> NoExtent,
                     maxImageExtent |-> NoExtent],
   families |-> <<>>, format |-> [format |-> "unset", colorSpace |-> "unset"],
   presentMode |-> "unset",
   extent |-> NoExtent, imageCount |-> 0]

\* the surface capabilities the driver can report
SurfaceCaps ==
  { [minImageCount |-> 1, maxImageCount |-> 0,
     currentExtent |-> [width |-> UINT_MAX, height |-> UINT_MAX],
     minImageExtent |-> [width |-> 640, height |-> 480],
     maxImageExtent |-> [width |-> 1024, height |-> 768]] }

\* ----------------------------------------------------- device selection
SurfaceFormat(f, c) == [format |-> f, colorSpace |-> c]

PreferredFormat == SurfaceFormat("B8G8R8A8_UNORM", "SRGB_NONLINEAR")

\* the loop of chooseSwapSurfaceFormat from formats[i] on
RECURSIVE formatLoop(_, _)
formatLoop(formats, i) ==
  IF i > Len(formats) THEN formats[1]
  ELSE IF /\ formats[i].format = "B8G8R8A8_UNORM"
          /\ formats[i].colorSpace = "SRGB_NONLINEAR"
       THEN formats[i]
       ELSE formatLoop(formats, i + 1)

\* a choice that takes the list as it is, without the undefined sentinel
chooseSwapSurfaceFormatNoSentinel(formats) == formatLoop(formats, 1)

\* a choice that looks at the format and not at the color space
chooseSwapSurfaceFormatAnySpace(formats) ==
  IF Len(formats) = 1 /\ formats[1].format = "UNDEFINED" THEN PreferredFormat
  ELSE LET bgra == {i \in 1..Len(formats) : formats[i].format = "B8G8R8A8_UNORM"}
       IN IF bgra = {} THEN formats[1]
          ELSE formats[CHOOSE i \in bgra : \A k \in bgra : i <= k]

chooseSwapSurfaceFormat(formats) ==
  IF Len(formats) = 1 /\ formats[1].format = "UNDEFINED" THEN PreferredFormat
  ELSE formatLoop(formats, 1)

\* the loop of choosePresentMode from modes[i] on
RECURSIVE presentModeLoop(_, _, _)
presentModeLoop(modes, i, bestMode) ==
  IF i > Len(modes) THEN bestMode
  ELSE IF modes[i] = "MAILBOX" THEN "MAILBOX"
       ELSE presentModeLoop(modes, i + 1,
                            IF modes[i] = "IMMEDIATE" THEN "IMMEDIATE" ELSE bestMode)

\* a choice that returns at the first mode it likes better than FIFO
choosePresentModeFirstMatch(modes) ==
  LET liked == {i \in 1..Len(modes) : modes[i] \in {"MAILBOX", "IMMEDIATE"}}
  IN IF liked = {} THEN "FIFO"
     ELSE modes[CHOOSE i \in liked : \A k \in liked : i <= k]

choosePresentMode(modes) == presentModeLoop(modes, 1, "FIFO")

\* the extension loop of choosePhysicalDevice
hasSwapChain(dev) ==
  \E k \in 1..Len(dev.extensions) : dev.extensions[k] = "VK_KHR_swapchain"

\* the queue family loop: the families it sets graphicsFamily and
\* presentationFamily from, as indices counted from 0
graphicsFamilies(dev) ==
  {j - 1 : j \in {k \in 1..Len(dev.queueFamilies) :
                    /\ dev.queueFamilies[k].queueCount > 0
                    /\ dev.queueFamilies[k].graphics}}

presentationFamilies(dev) ==
  {j - 1 : j \in {k \in 1..Len(dev.queueFamilies) :
                    /\ dev.queueFamilies[k].queueCount > 0
                    /\ dev.queueFamilies[k].present}}

\* a loop that stops at its first match
First(S) == CHOOSE j \in S : \A k \in S : j <= k

\* the loop assigns on every match, so the last match stays
Last(S) == CHOOSE j \in S : \A k \in S : k <= j

\* the continue statements that follow vkGetPhysicalDeviceFeatures
skipped(dev) ==
  \/ Len(dev.extensions) = 0
  \/ ~hasSwapChain(dev)
  \/ presentationFamilies(dev) = {} \/ graphicsFamilies(dev) = {}
  \/ Len(dev.formats) = 0
  \/ Len(dev.presentModes) = 0

\* "Ok, we're going to use this device.  Populate devInfo"; the handle of
\* a device is its position in the enumeration
populate(di, dev, i, width, height) ==
  [selectedDevInfo([di EXCEPT !.device = i], dev.capabilities, width, height)
     EXCEPT !.format = chooseSwapSurfaceFormat(dev.formats),
            !.presentMode = choosePresentMode(dev.presentModes),
            !.families = <<Last(graphicsFamilies(dev)),
                            Last(presentationFamilies(dev))>>]

\* the body of the device loop writes the features of the device into
\* devInfo before it knows whether this device is the one
withFeatures(di, dev) == [di EXCEPT !.deviceFeatures = dev.features]

\* the device loop from devices[i] on
RECURSIVE deviceLoop(_, _, _, _, _)
deviceLoop(di, devs, i, width, height) ==
  IF i > Len(devs) THEN [ok |-> FALSE, devInfo |-> di]
  ELSE IF devs[i].deviceType # "DISCRETE_GPU"
       THEN deviceLoop(di, devs, i + 1, width, height)
       ELSE IF skipped(devs[i])
            THEN deviceLoop(withFeatures(di, devs[i]), devs, i + 1, width, height)
            ELSE [ok |-> TRUE,
                  devInfo |-> populate(withFeatures(di, devs[i]), devs[i], i,
                                       width, height)]

\* a selection that goes on looking and keeps the last usable device
selectLastDevice(di, devs, width, height) ==
  LET usable == {i \in 1..Len(devs) :
                   devs[i].deviceType = "DISCRETE_GPU" /\ ~skipped(devs[i])}
  IN IF usable = {} THEN deviceLoop(di, devs, 1, width, height)
     ELSE [ok |-> TRUE,
           devInfo |-> populate(withFeatures(di, devs[Last(usable)]),
                                devs[Last(usable)], Last(usable), width, height)]

\* choosePhysicalDevice() on the devices the instance enumerates
selectDevice(di, devs, width, height) ==
  IF Len(devs) = 0 THEN [ok |-> FALSE, devInfo |-> di]
  ELSE deviceLoop(di, devs, 1, width, height)

\* the physical devices a machine can have
Family(n, g, p) == [queueCount |-> n, graphics |-> g, present |-> p]

GoodDevice(capabilities) ==
  [deviceType |-> "DISCRETE_GPU", features |-> 0,
   extensions |-> <<"VK_KHR_maintenance1", "VK_KHR_swapchain">>,
   queueFamilies |-> <<Family(1, TRUE, TRUE)>>,
   formats |-> <<PreferredFormat>>, presentModes |-> <<"FIFO">>,
   capabilities |-> capabilities,
   memoryTypes |-> <<[lazilyAllocated |-> FALSE]>>, memoryTypeBits |-> {0}]

StdCaps == CHOOSE c \in SurfaceCaps : TRUE

MinCounts == {1, 2, 3, UINT_MAX}
MaxCounts == {0, 3}

UsableDevices ==
  {GoodDevice([StdCaps EXCEPT !.minImageCount = lo, !.maxImageCount = hi]) :
     lo \in MinCounts, hi \in MaxCounts}
  \cup {[GoodDevice(StdCaps) EXCEPT
           !.queueFamilies = <<Family(1, TRUE, FALSE), Family(0, TRUE, TRUE),
                               Family(1, FALSE, TRUE), Family(1, TRUE, FALSE)>>,
           !.formats = <<SurfaceFormat("UNDEFINED", "SRGB_NONLINEAR")>>,
           !.presentModes = <<"FIFO", "IMMEDIATE", "MAILBOX">>],
         [GoodDevice(StdCaps) EXCEPT
           !.formats = <<SurfaceFormat("R8G8B8A8_UNORM", "SRGB_NONLINEAR")>>,
           !.presentModes = <<"IMMEDIATE", "FIFO">>]}

UnusableDevices ==
  {[GoodDevice(StdCaps) EXCEPT !.deviceType = "INTEGRATED_GPU"],
   [GoodDevice(StdCaps) EXCEPT !.extensions = <<>>],
   [GoodDevice(StdCaps) EXCEPT !.extensions = <<"VK_KHR_maintenance1">>],
   [GoodDevice(StdCaps) EXCEPT !.queueFamilies = <<>>],
   [GoodDevice(StdCaps) EXCEPT !.queueFamilies = <<Family(0, TRUE, TRUE)>>],
   [GoodDevice(StdCaps) EXCEPT !.queueFamilies = <<Family(1, TRUE, FALSE)>>],
   [GoodDevice(StdCaps) EXCEPT !.queueFamilies = <<Family(1, FALSE, TRUE)>>],
   [GoodDevice(StdCaps) EXCEPT !.formats = <<>>],
   [GoodDevice(StdCaps) EXCEPT !.presentModes = <<>>]}

\* vkGetPhysicalDeviceFeatures reports for each device its own features:
\* the features of the device at position i are named i
Enumerate(devs) == [i \in 1..Len(devs) |-> [devs[i] EXCEPT !.features = i]]

\* the machines the program runs on: none, or an integrated device
\* in front of a usable one whose surface capabilities are capabilities
Enumerations(capabilities) ==
  {<<>>,
   Enumerate(<<[GoodDevice(StdCaps) EXCEPT !.deviceType = "INTEGRATED_GPU"],
               GoodDevice(capabilities)>>)}

\* every machine of at most MaxDevices devices
Machines ==
  UNION {{Enumerate(devs) : devs \in [1..n -> UsableDevices \cup UnusableDevices]} :
           n \in 0..MaxDevices}

\* the present modes and the formats a surface can report
PresentModes == {"IMMEDIATE", "MAILBOX", "FIFO", "FIFO_RELAXED"}

SurfaceFormats ==
  {SurfaceFormat(f, c) : f \in {"UNDEFINED", "B8G8R8A8_UNORM", "R8G8B8A8_UNORM"},
                         c \in {"SRGB_NONLINEAR", "DISPLAY_P3_NONLINEAR"}}

ModeLists == UNION {[1..n -> PresentModes] : n \in 1..MaxModes}

FormatLists == UNION {[1..n -> SurfaceFormats] : n \in 1..MaxFormats}

\* the machines of one usable device, over the lists its surface reports
SurfaceMachines ==
  {Enumerate(<<[GoodDevice(StdCaps) EXCEPT !.presentModes = modes]>>) :
     modes \in ModeLists}
  \cup {Enumerate(<<[GoodDevice(StdCaps) EXCEPT !.formats = formats]>>) :
          formats \in FormatLists}

\* ------------------------------------------- memory of the msaa image
\* dev.memoryTypes is what vkGetPhysicalDeviceMemoryProperties reports and
\* dev.memoryTypeBits the set of the bits that are set in the
\* memoryTypeBits of the requirements of a multisample image: bit j is set
\* when j is in the set.
\* the loop over the memory types from type j on; memTypeIndex starts at 0
\* and is assigned only in front of the break
RECURSIVE memTypeLoop(_, _)
memTypeLoop(dev, j) ==
  IF j >= Len(dev.memoryTypes) THEN 0
  ELSE IF j \in dev.memoryTypeBits /\ dev.memoryTypes[j + 1].lazilyAllocated
       THEN j
       ELSE memTypeLoop(dev, j + 1)

memTypeIndex(dev) == memTypeLoop(dev, 0)

\* the driver notes the memory type of each vkAllocateMemory
allocated(d, dev) ==
  [d EXCEPT !.allocations =
     @ \cup {<<h, memTypeIndex(dev)>> :
               h \in {x \in d.created : x[1] = "msaaMemory"
                                          /\ \A a \in @ : a[1] # x}}]

\* the machines of one usable device, over its memory types and over the
\* types the image can live in (at least one)
MemoryMachines ==
  UNION {{Enumerate(<<[GoodDevice(StdCaps) EXCEPT !.memoryTypes = types,
                                                  !.memoryTypeBits = bits]>>) :
            types \in [1..n -> [lazilyAllocated : BOOLEAN]],
            bits \in (SUBSET (0..(n - 1))) \ {{}}} :
          n \in 1..MaxMemoryTypes}

\* ------------------------------------------------ queues and sharing
hasUniqueFamilyAlways(di) == di.families[1] = di.families[1]

hasUniqueFamily(di) == di.families[1] = di.families[2]

\* createLogicalDevice: the families of the queueCreateInfo entries
queueCreateInfo(di) ==
  [i \in 1..(IF hasUniqueFamily(di) THEN 1 ELSE 2) |-> di.families[i]]

\* createSwapChain: imageSharingMode, queueFamilyIndexCount and
\* pQueueFamilyIndices of the create info
swapchainCreateInfo(di) ==
  [imageSharingMode |-> IF hasUniqueFamily(di) THEN "EXCLUSIVE" ELSE "CONCURRENT",
   queueFamilyIndices |-> IF hasUniqueFamily(di) THEN <<>> ELSE di.families]

\* the driver notes what each device and each swapchain was created with
configured(d, di) ==
  [d EXCEPT !.createInfos =
     @ \cup {<<h, queueCreateInfo(di)>> :
               h \in {x \in d.created : x[1] = "device" /\ \A c \in @ : c[1] # x}}
       \cup {<<h, swapchainCreateInfo(di)>> :
               h \in {x \in d.created : x[1] = "swapchain" /\ \A c \in @ : c[1] # x}}]

\* vkGetDeviceQueue: queue 0 of the graphics and of the presentation family
getDeviceQueues(st, di) ==
  [st EXCEPT !.graphicsQueue = <<"queue", di.families[1], 0>>,
             !.presentationQueue = <<"queue", di.families[2], 0>>]

\* the machines of one usable device, over the layouts of its queue
\* families: one family for both kinds of work, one family for each, and
\* four families of which only the third can present
QueueMachines ==
  {Enumerate(<<[GoodDevice(StdCaps) EXCEPT !.queueFamilies = families]>>) :
     families \in {<<Family(1, TRUE, TRUE)>>,
                   <<Family(1, TRUE, FALSE), Family(1, FALSE, TRUE)>>,
                   <<Family(1, FALSE, TRUE), Family(1, TRUE, FALSE)>>,
                   <<Family(1, TRUE, FALSE), Family(0, TRUE, TRUE),
                     Family(1, FALSE, TRUE), Family(1, TRUE, FALSE)>>}}

\* ------------------------------------------------------- diagnostics
\* what a builder prints before it returns false from step s; %d is the
\* place of the VkResult
failureLines(s, devs) ==
  CASE s.call = "glfwVulkanSupported" ->
         <<"glfw does not support vulkan! Upgrade to the latest version">>
    [] s.call = "vkCreateInstance" -> <<"vkCreateInstance failed with %d">>
    [] s.call = "glfwCreateWindowSurface" ->
         <<"failed to create surface: glfwCreateWindowSurface() failed with %d">>
    [] s.call = "choosePhysicalDevice" ->
         \* deviceCount == 0 is reported; the return that follows the device
         \* loop prints nothing
         IF Len(devs) = 0 THEN <<"Found no physical device">> ELSE <<>>
    [] s.call = "vkCreateDevice" -> <<"vkCreateDevice failed with %d">>
    [] s.call = "vkCreateSwapchainKHR" -> <<"vkCreateSwapchainKHR failed with %d">>
    [] s.call = "vkCreateImageView" -> <<"vkCreateImageView failed with %d">>
    [] s.call = "vkCreateSemaphore" -> <<"vkCreateSemaphore failed with %d">>
    [] s.call = "vkCreateFence" -> <<"vkCreateFence failed with %d">>
    [] s.call = "vkCreateImage" -> <<"vkCreateImage failed with %d">>
    [] s.call = "vkAllocateMemory" -> <<"vkAllocateMemory failed with %d">>
    [] s.call = "readFile vertex.spv" -> <<"Could not read vertex.spv">>
    [] s.call = "readFile fragment.spv" -> <<"Could not read fragment.spv">>
    [] s.call = "vkCreateShaderModule" -> <<"vkCreateShaderModule failed with %d">>
    [] s.call = "vkCreateRenderPass" -> <<"vkCreateRenderPass failed with %d">>
    [] s.call = "vkCreatePipelineLayout" ->
         <<"vkCreatePipelineLayout failed with ret %d">>
    [] s.call = "vkCreateGraphicsPipelines" ->
         <<"vkCreateGraphicsPipelines failed with ret %d">>
    [] s.call = "vkCreateFramebuffer" -> <<"vkCreateFramebuffer failed with %d">>
    [] s.call = "vkCreateCommandPool" -> <<"vkCreateCommandPool failed with %d">>
    [] s.call = "vkAllocateCommandBuffers" ->
         <<"vkCreateCommandPool failed with %d">>
    [] s.call = "vkEndCommandBuffer" -> <<"vkEndCommandBuffer failed with %d">>
    [] OTHER -> <<>>

\* the sizes a resize notification can carry
Widths == {0, 1600}
Heights == {0, 300}

\* the driver may create more images than minImageCount asks for
ImageCounts(requested) == requested..MaxImages

\* ----------------------------------------------------------- renderFrame
AcquireResults == {"VK_SUCCESS", "VK_ERROR_OUT_OF_DATE_KHR"}

\* an image index is written only when an image was acquired
Acquired(res) == res # "VK_ERROR_OUT_OF_DATE_KHR"

\* the values imageIndex can hold after the acquire: an index of the
\* swapchain, or anything at all when it was left uninitialised (0 stands
\* for the values inside the vectors, MaxImages for those beyond them)
ImageIndices(st, res) ==
  IF Acquired(res) THEN 0..(st.vkSwapChain[3] - 1) ELSE {0, MaxImages}

\* the call is logged with the image whose index it returned; an acquire
\* that returns an image signals sem, which must not hold a signal yet
vkAcquireNextImageKHR(d, swapchain, sem, res, j, mode) ==
  IF d.crashed \/ d.stuck THEN d
  ELSE LET e == Enter(d, "vkAcquireNextImageKHR",
                      IF Acquired(res) THEN H("image", swapchain[2], j + 1)
                      ELSE GARBAGE,
                      {swapchain, sem}, mode, res)
       IN IF e.crashed \/ Rejected(d, {swapchain, sem}) \/ ~Acquired(res) THEN e
          ELSE [e EXCEPT !.sems = @ \cup {sem},
                         !.misuse = IF sem \in d.sems
                                    THEN @ \cup {<<"vkAcquireNextImageKHR",
                                                   "signal pending">>}
                                    ELSE @]

\* vkQueueSubmit(graphicsQueue, 1, &submitInfo, fence); ok is the driver's
\* verdict on a valid call; a submission whose wait semaphore will never be
\* signaled (no image was acquired) cannot start
SubmitOk(d, hs, ok, mode) == ok /\ ~Faults(d, hs, mode) /\ ~Rejected(d, hs)

vkQueueSubmit(d, cb, waitSem, signalSem, fence, ok, blocked, n, mode) ==
  IF d.crashed \/ d.stuck THEN d
  ELSE LET hs == {cb, waitSem, signalSem, fence}
           e == Enter(d, "vkQueueSubmit", cb, hs, mode,
                      IF SubmitOk(d, hs, ok, mode) THEN "VK_SUCCESS" ELSE "error")
       IN IF SubmitOk(d, hs, ok, mode)
          THEN [e EXCEPT !.inflight = @ \cup
                  {[fence |-> fence, cb |-> cb, waitSem |-> waitSem,
                    signalSem |-> signalSem, done |-> FALSE,
                    blocked |-> blocked, n |-> n]}]
          ELSE e

vkQueuePresentKHR(d, swapchain, sem, j, acquired, presentOk, rejected, mode) ==
  IF d.crashed \/ d.stuck THEN d
  ELSE LET e == Enter(d, "vkQueuePresentKHR", H("image", swapchain[2], j + 1),
                      {swapchain, sem}, mode,
                      IF presentOk THEN "VK_SUCCESS" ELSE "error")
           \* a call that returns an error has either queued the request
           \* all the same (VK_ERROR_OUT_OF_DATE_KHR) or failed to queue it
           \* (VK_ERROR_OUT_OF_HOST_MEMORY), and then sem is left as it was:
           \* the wait on it never executes
           q == IF e.crashed \/ Rejected(d, {swapchain, sem})
                   \/ (~presentOk /\ rejected) THEN e
                ELSE [e EXCEPT !.presents = @ \cup {sem}]
       IN IF acquired THEN q
          ELSE [q EXCEPT !.misuse = @ \cup {<<"vkQueuePresentKHR", "not acquired">>}]

\* a cursor taken from the counter after its increment
idxAfterIncrement(st, renderCount) ==
  Mod32(Succ32(renderCount), Len(st.swapChain)) + 1

\* the slot renderFrame synchronises on (1-based)
idx(st, renderCount) == Mod32(renderCount, Len(st.swapChain)) + 1

\* a lookup that ignores the index acquire returned
commandBufferAtFirst(st, j) == st.commandBuffers[1]

\* commandBuffers[imageIndex]; reading past the end yields anything
commandBufferAt(st, j) ==
  IF j < Len(st.commandBuffers) THEN st.commandBuffers[j + 1] ELSE GARBAGE

\* a renderFrame that reports a failed present to the loop
renderFramePresentFatal(st, d, renderCount, n, res, j, ok, presentOk, rejected, mode) ==
  LET e == st.swapChain[idx(st, renderCount)]
      cb == commandBufferAt(st, j)
      d0 == [d EXCEPT !.calls = <<>>]
      d1 == vkWaitForFences(d0, e.fence, mode)
      d2 == vkResetFences(d1, e.fence, mode)
      d3 == vkAcquireNextImageKHR(d2, st.vkSwapChain, e.imageAvailableSem, res, j, mode)
      hs == {cb, e.imageAvailableSem, e.renderFinishedSem, e.fence}
      d4 == vkQueueSubmit(d3, cb, e.imageAvailableSem, e.renderFinishedSem,
                          e.fence, ok, ~Acquired(res), n, mode)
      submitted == ~d3.crashed /\ SubmitOk(d3, hs, ok, mode)
      d5 == vkQueuePresentKHR(d4, st.vkSwapChain, e.renderFinishedSem, j,
                              Acquired(res), presentOk, rejected, mode)
  IN IF submitted THEN [ret |-> presentOk, drv |-> d5] ELSE [ret |-> FALSE, drv |-> d4]

\* a renderFrame that gives the frame up when no image was acquired
renderFrameSkipUnacquired(st, d, renderCount, n, res, j, ok, presentOk, rejected, mode) ==
  LET e == st.swapChain[idx(st, renderCount)]
      cb == commandBufferAt(st, j)
      d0 == [d EXCEPT !.calls = <<>>]
      d1 == vkWaitForFences(d0, e.fence, mode)
      d2 == vkResetFences(d1, e.fence, mode)
      d3 == vkAcquireNextImageKHR(d2, st.vkSwapChain, e.imageAvailableSem, res, j, mode)
      hs == {cb, e.imageAvailableSem, e.renderFinishedSem, e.fence}
      d4 == vkQueueSubmit(d3, cb, e.imageAvailableSem, e.renderFinishedSem,
                          e.fence, ok, ~Acquired(res), n, mode)
      submitted == ~d3.crashed /\ SubmitOk(d3, hs, ok, mode)
      d5 == vkQueuePresentKHR(d4, st.vkSwapChain, e.renderFinishedSem, j,
                              Acquired(res), presentOk, rejected, mode)
  IN IF ~Acquired(res) THEN [ret |-> TRUE, drv |-> d3]
     ELSE IF submitted THEN [ret |-> TRUE, drv |-> d5] ELSE [ret |-> FALSE, drv |-> d4]

\* renderFrame(renderCount): res and j are the result and the index of the
\* acquire, ok and presentOk the driver's verdicts on submit and present,
\* rejected whether a present that fails was rejected
renderFrame(st, d, renderCount, n, res, j, ok, presentOk, rejected, mode) ==
  LET e == st.swapChain[idx(st, renderCount)]
      cb == commandBufferAt(st, j)
      d0 == [d EXCEPT !.calls = <<>>]
      d1 == vkWaitForFences(d0, e.fence, mode)
      d2 == vkResetFences(d1, e.fence, mode)
      d3 == vkAcquireNextImageKHR(d2, st.vkSwapChain, e.imageAvailableSem, res, j, mode)
      hs == {cb, e.imageAvailableSem, e.renderFinishedSem, e.fence}
      d4 == vkQueueSubmit(d3, cb, e.imageAvailableSem, e.renderFinishedSem,
                          e.fence, ok, ~Acquired(res), n, mode)
      submitted == ~d3.crashed /\ SubmitOk(d3, hs, ok, mode)
      d5 == vkQueuePresentKHR(d4, st.vkSwapChain, e.renderFinishedSem, j,
                              Acquired(res), presentOk, rejected, mode)
  IN IF submitted THEN [ret |-> TRUE, drv |-> d5] ELSE [ret |-> FALSE, drv |-> d4]

\* ----------------------------------------------------- recreateSwapChain
getSurfaceCapabilities(d) ==
  IF d.crashed \/ d.stuck THEN d
  ELSE [d EXCEPT !.calls =
          Append(@, <<"vkGetPhysicalDeviceSurfaceCapabilitiesKHR", NULL, "VK_SUCCESS", {}>>)]

\* a resize that tears down before it waits
recreateSwapChainTeardownFirst(st, d, g, size, f, mode) ==
  LET d0 == [d EXCEPT !.calls = <<>>]
      d1 == cleanupSwapChain(st, d0, mode)
      d2 == waitForIdle(st, d1, mode)
      d3 == getSurfaceCapabilities(d2)
  IN IF d3.crashed \/ d3.stuck THEN [ok |-> FALSE, app |-> st, drv |-> d3]
     ELSE Build(rebuildSteps(size), f, st, d3, g)

\* waitForIdle(); updateExtent(); cleanupSwapChain(); then the || chain of
\* the builders, whose step f fails
recreateSwapChain(st, d, g, size, f, mode) ==
  LET d0 == [d EXCEPT !.calls = <<>>]
      d1 == waitForIdle(st, d0, mode)
      d2 == getSurfaceCapabilities(d1)
      d3 == cleanupSwapChain(st, d2, mode)
  IN IF d3.crashed \/ d3.stuck THEN [ok |-> FALSE, app |-> st, drv |-> d3]
     ELSE Build(rebuildSteps(size), f, st, d3, g)

\* ------------------------------------------------------ the state machine
VARIABLES
  pc,              \* where run() is
  app,             \* the members of the VulkanApp object
  devInfo,         \* VulkanApp::devInfo
  renderCount,     \* the local of run()
  running,         \* the local of the loop body
  drv,             \* the driver (see NewDriver)
  caps,            \* the capabilities the surface reports
  devices,         \* the physical devices the instance enumerates
  gen,             \* calls of recreateSwapChain so far
  frames,          \* calls of renderFrame so far
  issued,          \* the calls renderFrame has issued so far, per call
  failedAt,        \* frames when recreateSwapChain first returned false, or -1
  failures,        \* the calls of recreateSwapChain that returned false
  handler,         \* the handler whose driver calls drv.calls holds
  printed          \* the failure lines the builders printed in that handler

vars == <<pc, app, devInfo, renderCount, running, drv, caps, devices, gen, frames,
          issued, failedAt, failures, handler, printed>>

FrameCalls ==
  {"vkWaitForFences", "vkResetFences", "vkAcquireNextImageKHR",
   "vkQueueSubmit", "vkQueuePresentKHR"}

Count(cs, call) == Cardinality({i \in 1..Len(cs) : cs[i][1] = call})

Init ==
  /\ pc = "init"
  /\ app = NewApp
  /\ devInfo = NewDevInfo
  /\ renderCount = 0
  /\ running = TRUE
  /\ drv = NewDriver
  /\ caps \in SurfaceCaps
  /\ devices \in Enumerations(caps)
  /\ gen = 0
  /\ frames = 0
  /\ issued = [c \in FrameCalls |-> 0]
  /\ failedAt = -1
  /\ failures = 0
  /\ handler = "none"
  /\ printed = <<>>

\* the position of choosePhysicalDevice in the chain of init()
ChooseIdx == Len(initGlFw \o initVulkanInstance \o createSurface) + 1

\* the position of createLogicalDevice in the chain of init()
LogicalIdx == ChooseIdx + Len(choosePhysicalDevice)

\* run(): if (!init()) return;
init ==
  /\ pc = "init"
  /\ LET sel == selectDevice(devInfo, devices, InitWidth, InitHeight)
     IN \E size \in IF sel.ok THEN ImageCounts(sel.devInfo.imageCount) ELSE {1} :
        \E f \in FailPoints(initSteps(size)) :
          LET r == Build(initSteps(size), f, app, drv, 0)
          IN /\ f = ChooseIdx => ~sel.ok
             /\ f > ChooseIdx => sel.ok
             /\ app' = IF f > LogicalIdx THEN getDeviceQueues(r.app, sel.devInfo)
                        ELSE r.app
             /\ drv' = IF sel.ok
                        THEN configured(allocated(r.drv, devices[sel.devInfo.device]),
                                        sel.devInfo)
                        ELSE r.drv
             /\ devInfo' = IF f >= ChooseIdx THEN sel.devInfo ELSE devInfo
             /\ printed' = IF r.ok THEN <<>>
                            ELSE failureLines(initSteps(size)[f], devices)
          /\ pc' = IF r.ok THEN "renderFrame" ELSE "returned"
  /\ handler' = "init"
  /\ UNCHANGED <<renderCount, running, caps, devices, gen, frames, issued, failedAt, failures>>

\* some recreateSwapChain has returned false
recreateFailed == failedAt >= 0

\* run(): bool running = renderFrame(renderCount++); at most limit calls
\* are explored
FrameWith(limit, rejections) ==
  /\ pc = "renderFrame"
  /\ frames < limit
  /\ recreateFailed => frames < failedAt + MaxStaleFrames
  /\ \E res \in AcquireResults, ok \in BOOLEAN, presentOk \in BOOLEAN,
        rejected \in rejections,
        mode \in ModesFor(app, drv) :
     \E j \in ImageIndices(app, res) :
       LET r == renderFrame(app, drv, renderCount, frames, res, j, ok, presentOk,
                            rejected, mode)
       IN /\ ~r.drv.stuck
          /\ drv' = r.drv
          /\ running' = r.ret
          /\ issued' = [c \in FrameCalls |-> issued[c] + Count(r.drv.calls, c)]
          /\ pc' = IF r.drv.crashed THEN "crashed" ELSE "glfwPollEvents"
  /\ renderCount' = Succ32(renderCount)
  /\ frames' = frames + 1
  /\ handler' = "renderFrame"
  /\ printed' = <<>>
  /\ UNCHANGED <<app, devInfo, caps, devices, gen, failedAt, failures>>

\* the frames of a run in which the presentation engine queues every
\* request it is handed
Frame(limit) == FrameWith(limit, {FALSE})

RenderFrame == Frame(MaxFrames)

\* the steps of a rebuild the driver may fail
RebuildFailPoints(size) ==
  IF failures >= MaxFailures THEN {Len(rebuildSteps(size)) + 1}
  ELSE FailPoints(rebuildSteps(size))

\* onResize(): if (width == 0 || height == 0) return;
ZeroAreaWidthOnly(width, height) == width = 0

ZeroArea(width, height) == width = 0 \/ height = 0

\* glfwPollEvents() delivers the size notification onResize(width, height)
Notify(width, height) ==
  /\ pc = "glfwPollEvents"
  /\   IF ZeroArea(width, height)
       THEN /\ drv' = [drv EXCEPT !.calls = <<>>]
            /\ printed' = <<>>
            /\ UNCHANGED <<pc, app, devInfo, gen, failedAt, failures>>
       ELSE /\ gen < MaxResizes
            /\ \E size \in ImageCounts(devInfo.imageCount), mode \in ModesFor(app, drv) :
               \E f \in RebuildFailPoints(size) :
                 LET r == recreateSwapChain(app, drv, gen + 1, size, f, mode)
                     waited == waitForIdle(app, drv, mode)
                 IN /\ ~r.drv.stuck
                    /\ app' = r.app
                    /\ drv' = configured(allocated(r.drv, devices[devInfo.device]),
                                         devInfo)
                    /\ devInfo' = IF waited.crashed THEN devInfo
                                   ELSE updateExtent(devInfo, caps, width, height)
                    /\ gen' = gen + 1
                    \* the value recreateSwapChain returns is dropped
                    /\ failedAt' = IF ~recreateFailed /\ ~r.ok /\ ~r.drv.crashed
                                   THEN frames ELSE failedAt
                    /\ failures' = IF ~r.ok /\ ~r.drv.crashed
                                   THEN failures + 1 ELSE failures
                    /\ printed' = IF ~r.ok /\ ~r.drv.crashed
                                   THEN failureLines(rebuildSteps(size)[f], devices)
                                   ELSE <<>>
                    /\ pc' = IF r.drv.crashed THEN "crashed" ELSE pc
  /\ handler' = "onResize"
  /\ UNCHANGED <<renderCount, running, caps, devices, frames, issued>>

onResize == \E width \in Widths, height \in Heights : Notify(width, height)

\* glfwPollEvents() has returned; the escape key and the close request are
\* tested and the loop continues or breaks
LoopTest ==
  /\ pc = "glfwPollEvents"
  /\ \E quit \in BOOLEAN :
       pc' = IF running /\ ~quit THEN "renderFrame" ELSE "waitForIdle"
  /\ UNCHANGED <<app, devInfo, renderCount, running, drv, caps, devices, gen, frames,
                 issued, failedAt, failures, handler, printed>>

\* run(): waitForIdle();
WaitForIdle ==
  /\ pc = "waitForIdle"
  /\ \E mode \in Modes :
       LET d == waitForIdle(app, [drv EXCEPT !.calls = <<>>], mode)
       IN /\ ~d.stuck
          /\ drv' = d
          /\ pc' = IF d.crashed THEN "crashed" ELSE "cleanup"
  /\ handler' = "waitForIdle"
  /\ printed' = <<>>
  /\ UNCHANGED <<app, devInfo, renderCount, running, caps, devices, gen, frames,
                 issued, failedAt, failures>>

\* run(): cleanup();
Cleanup ==
  /\ pc = "cleanup"
  /\ \E mode \in Modes :
       LET d == cleanup(app, [drv EXCEPT !.calls = <<>>], mode)
       IN /\ drv' = d
          /\ pc' = IF d.crashed THEN "crashed" ELSE "done"
  /\ handler' = "cleanup"
  /\ printed' = <<>>
  /\ UNCHANGED <<app, devInfo, renderCount, running, caps, devices, gen, frames,
                 issued, failedAt, failures>>

\* the submissions of a queue signal their fences in submission order
Runnable(d) == {s \in Pending(d) : ~s.blocked}

\* the GPU finishes submission s: the wait on its wait semaphore has
\* consumed that signal, its fence and its signal semaphore become
\* signaled, and the presentation request queued on that semaphore, if
\* there is one, consumes the signal in turn
complete(d, s) ==
  [d EXCEPT !.inflight = (@ \ {s}) \cup {[s EXCEPT !.done = TRUE]},
            !.signaled = @ \cup {s.fence},
            !.sems = IF s.signalSem \in d.presents
                     THEN @ \ {s.waitSem, s.signalSem}
                     ELSE (@ \ {s.waitSem}) \cup {s.signalSem},
            !.presents = @ \ {s.signalSem},
            !.misuse = IF s.signalSem \in d.sems
                       THEN @ \cup {<<"vkQueueSubmit", "signaled twice">>}
                       ELSE @]

\* the GPU finishes a submission
GpuComplete ==
  /\ pc \in {"renderFrame", "glfwPollEvents", "waitForIdle"}
  /\ \E s \in Runnable(drv) :
       /\ \A t \in Runnable(drv) : s.n <= t.n
       /\ drv' = complete(drv, s)
  /\ UNCHANGED <<pc, app, devInfo, renderCount, running, caps, devices, gen, frames,
                 issued, failedAt, failures, handler, printed>>

Next ==
  \/ init
  \/ RenderFrame
  \/ onResize
  \/ LoopTest
  \/ WaitForIdle
  \/ Cleanup
  \/ GpuComplete

Spec == Init /\ [][Next]_vars

\* A run without size notifications, followed over more frames.
SteadyFrame == Frame(MaxSteadyFrames)

SteadyNext ==
  \/ init
  \/ SteadyFrame
  \/ LoopTest
  \/ WaitForIdle
  \/ Cleanup
  \/ GpuComplete

SteadySpec == Init /\ [][SteadyNext]_vars

\* A run without size notifications under the scheduling of run():
\* waitForIdle() is called once the loop is left and returns when its waits
\* can, and the GPU finishes every submission that is able to run.
ShutdownNext ==
  \/ init
  \/ RenderFrame
  \/ LoopTest
  \/ WaitForIdle
  \/ Cleanup
  \/ GpuComplete

ShutdownSpec ==
  /\ Init /\ [][ShutdownNext]_vars
  /\ WF_vars(WaitForIdle) /\ WF_vars(GpuComplete)

\* The loop as the counter comes to its wrap: init() has built everything
\* on a machine of one usable device, renderFrame has been called
\* 2^32 - 3 times and the GPU has finished every frame.  frames and issued
\* count from this state on.
WrapInit ==
  /\ pc = "renderFrame"
  /\ caps = StdCaps
  /\ devices = Enumerate(<<GoodDevice(StdCaps)>>)
  /\ LET sel == selectDevice(NewDevInfo, devices, InitWidth, InitHeight)
     IN \E size \in ImageCounts(sel.devInfo.imageCount) :
          LET r == Build(initSteps(size), Len(initSteps(size)) + 1,
                         NewApp, NewDriver, 0)
          IN /\ app = getDeviceQueues(r.app, sel.devInfo)
             /\ drv = [configured(allocated(r.drv, devices[sel.devInfo.device]),
                                  sel.devInfo) EXCEPT !.calls = <<>>]
             /\ devInfo = sel.devInfo
  /\ renderCount = UINT_MAX - 2
  /\ running = TRUE
  /\ gen = 0
  /\ frames = 0
  /\ issued = [c \in FrameCalls |-> 0]
  /\ failedAt = -1
  /\ failures = 0
  /\ handler = "none"
  /\ printed = <<>>

WrapFrame == Frame(MaxWrapFrames)

WrapNext == WrapFrame \/ LoopTest \/ GpuComplete

WrapSpec == WrapInit /\ [][WrapNext]_vars

\* A run without size notifications in which the presentation engine may
\* reject a request.
SemaphoreFrame == FrameWith(MaxFrames, BOOLEAN)

SemaphoreNext ==
  \/ init
  \/ SemaphoreFrame
  \/ LoopTest
  \/ GpuComplete

SemaphoreSpec == Init /\ [][SemaphoreNext]_vars

\* choosePhysicalDevice() on one of the machines: init() has come to call
\* it, the steps in front of it have succeeded
SelectFrom(machines) ==
  /\ pc = "choosePhysicalDevice"
  /\ LET r == RunSteps(initSteps(1), 1, ChooseIdx - 1,
                       [app |-> NewApp, drv |-> NewDriver], 0)
     IN app = r.app /\ drv = r.drv
  /\ devInfo = NewDevInfo
  /\ renderCount = 0
  /\ running = TRUE
  /\ caps = StdCaps
  /\ devices \in machines
  /\ gen = 0
  /\ frames = 0
  /\ issued = [c \in FrameCalls |-> 0]
  /\ failedAt = -1
  /\ failures = 0
  /\ handler = "init"
  /\ printed = <<>>

\* init(): || !choosePhysicalDevice(); on failure init() returns false
\* and run() returns
ChoosePhysicalDevice ==
  /\ pc = "choosePhysicalDevice"
  /\ LET sel == selectDevice(devInfo, devices, InitWidth, InitHeight)
         r == Build(choosePhysicalDevice, IF sel.ok THEN 2 ELSE 1, app, drv, 0)
     IN /\ devInfo' = sel.devInfo
        /\ app' = r.app
        /\ drv' = r.drv
        /\ printed' = IF sel.ok THEN <<>>
                       ELSE failureLines(choosePhysicalDevice[1], devices)
        /\ pc' = IF sel.ok THEN "createLogicalDevice" ELSE "returned"
  /\ UNCHANGED <<renderCount, running, caps, devices, gen, frames, issued,
                 failedAt, failures, handler>>

SelectNext == ChoosePhysicalDevice

SelectInit == SelectFrom(Machines)

SelectSpec == SelectInit /\ [][SelectNext]_vars

\* init() over the memory types of the device
MemoryInit ==
  /\ pc = "init"
  /\ app = NewApp
  /\ devInfo = NewDevInfo
  /\ renderCount = 0
  /\ running = TRUE
  /\ drv = NewDriver
  /\ caps = StdCaps
  /\ devices \in MemoryMachines
  /\ gen = 0
  /\ frames = 0
  /\ issued = [c \in FrameCalls |-> 0]
  /\ failedAt = -1
  /\ failures = 0
  /\ handler = "none"
  /\ printed = <<>>

MemoryNext == init

MemorySpec == MemoryInit /\ [][MemoryNext]_vars

\* init(), the first frame and a resize over the queue families of the
\* device
QueueInit ==
  /\ pc = "init"
  /\ app = NewApp
  /\ devInfo = NewDevInfo
  /\ renderCount = 0
  /\ running = TRUE
  /\ drv = NewDriver
  /\ caps = StdCaps
  /\ devices \in QueueMachines
  /\ gen = 0
  /\ frames = 0
  /\ issued = [c \in FrameCalls |-> 0]
  /\ failedAt = -1
  /\ failures = 0
  /\ handler = "none"
  /\ printed = <<>>

QueueNext == init \/ RenderFrame \/ GpuComplete \/ onResize

QueueSpec == QueueInit /\ [][QueueNext]_vars

\* choosePhysicalDevice() over the format and present mode lists
SurfaceInit == SelectFrom(SurfaceMachines)

SurfaceSpec == SurfaceInit /\ [][SelectNext]_vars

\* ------------------------------------------------------------ vocabulary
Names(cs) == [i \in 1..Len(cs) |-> cs[i][1]]

\* the slot count
K == Len(app.swapChain)

\* the handler that ran last is renderFrame
FrameRan == handler = "renderFrame"

\* the handler that ran last is onResize, and it called recreateSwapChain
ResizeRan == handler = "onResize" /\ drv.calls # <<>>

\* the handler that ran last tore the swapchain down
TeardownRan == handler \in {"onResize", "cleanup"} /\ drv.calls # <<>>

DestroyNames ==
  {"vkFreeCommandBuffers", "vkDestroyFramebuffer", "vkDestroyPipeline",
   "vkDestroyPipelineLayout", "vkDestroyRenderPass", "vkDestroyShaderModule",
   "vkDestroyFence", "vkDestroySemaphore", "vkDestroyImageView", "vkFreeMemory",
   "vkDestroyImage", "vkDestroySwapchainKHR", "vkDestroyCommandPool",
   "vkDestroySurfaceKHR", "vkDestroyDevice", "vkDestroyInstance",
   "glfwDestroyWindow"}

\* every submission has completed and the CPU has seen every slot's fence
\* signaled since the fence was last reset
Drained ==
  /\ Pending(drv) = {}
  /\ \A i \in 1..K : app.swapChain[i].fence \in drv.seen

\* ---------------------------------------------------------------- claims

\* C1: at every moment the number of submitted frames whose fence has not
\* yet signaled is at most the current slot count.
InFlightBounded == Cardinality(Pending(drv)) <= K

\* C1 witness: the ring has wrapped (more frames than slots) and as many
\* frames as there are slots are executing on the GPU.
InFlightFull ==
  /\ K > 0
  /\ frames > K
  /\ Cardinality(Runnable(drv)) = K

\* C2: a command buffer is submitted again only after the CPU has observed
\* the fence of its previous submission: no two submissions the CPU has
\* not yet observed complete use the same command buffer.
ResubmitAfterObserved ==
  \A s, t \in drv.inflight : s # t => s.cb # t.cb

\* C3: while every submit has succeeded, renderFrame has issued exactly one
\* wait, reset, acquire, submit and present per frame, in that order, and
\* the fence waited before submit i is the fence of slot (i mod K) that the
\* submit arms.
FrameCallsExact ==
  (running /\ pc # "crashed") =>
     /\ \A c \in FrameCalls : issued[c] = frames
     /\ FrameRan =>
          /\ Names(drv.calls) =
               <<"vkWaitForFences", "vkResetFences", "vkAcquireNextImageKHR",
                 "vkQueueSubmit", "vkQueuePresentKHR">>
          /\ drv.calls[1][2] = app.swapChain[((frames - 1) % K) + 1].fence
          /\ \E s \in drv.inflight : s.n = frames - 1 /\ s.fence = drv.calls[1][2]

\* C3 witness: ten frames have run on three slots, every submit succeeded.
FrameCallsWitness ==
  /\ running /\ pc = "glfwPollEvents" /\ FrameRan
  /\ K = 3 /\ frames = 10
  /\ \A c \in FrameCalls : issued[c] = 10

\* C4: the slot a frame synchronises on is the number of earlier frames
\* modulo the current slot count, also after resizes.
CursorIsFramesModK ==
  (FrameRan /\ pc # "crashed") =>
     /\ drv.calls[1][1] = "vkWaitForFences"
     /\ drv.calls[1][2] = app.swapChain[((frames - 1) % K) + 1].fence
     /\ idx(app, renderCount) = (frames % K) + 1

\* C4 witness: a frame has run after a resize that changed the slot count,
\* on a slot other than the first.
CursorAfterResize ==
  /\ FrameRan /\ pc = "glfwPollEvents" /\ failures = 0
  /\ \E h \in drv.destroyed : h[1] = "swapchain" /\ h[3] # K
  /\ (frames - 1) % K # 0

\* C5: the command pool and the device are destroyed only once the device
\* is drained, and no object is destroyed while a submission executes.
ShutdownAfterDrain ==
  /\ \A h \in drv.destroyed : h[1] \in {"commandPool", "device"} => Drained
  /\ pc \in {"cleanup", "done"} => Drained
  /\ \A m \in drv.misuse : m[2] # "in use"

\* C5 witness: a run that rendered frames has shut down and destroyed its
\* command pool.
ShutdownDone ==
  /\ pc = "done" /\ frames >= 2
  /\ app.commandPool \in drv.destroyed

\* C11: a size notification with width = 0 or height = 0 is a no-op: it makes
\* no driver call and leaves the extent and every other field as they were.
ZeroAreaNoOp ==
  [][\A width \in Widths, height \in Heights :
       ((width = 0 \/ height = 0) /\ Notify(width, height)) =>
          /\ drv'.calls = <<>>
          /\ drv' = [drv EXCEPT !.calls = <<>>]
          /\ UNCHANGED <<pc, app, devInfo, renderCount, running, caps, devices, gen,
                         frames, issued, failedAt, failures>>]_vars

\* C11 witness: a zero-area notification has been delivered to a program
\* that has rendered a frame and has work in flight.
ZeroAreaDelivered ==
  /\ handler = "onResize" /\ drv.calls = <<>>
  /\ frames >= 1 /\ Pending(drv) # {}

\* C6: after a normal shutdown every handle the program created has been
\* destroyed exactly once.
NoLeakAtExit ==
  pc = "done" =>
     /\ drv.created = drv.destroyed
     /\ \A m \in drv.misuse : ~(m[1] \in DestroyNames /\ m[2] = "destroyed")

\* C7: once recreateSwapChain has reported failure, renderFrame is never
\* called again.
FailureStopsFrames == recreateFailed => frames = failedAt

\* C8: when init() fails, every handle the succeeded steps created has been
\* destroyed by the time run() returns.
InitFailureReleasesAll == pc = "returned" => drv.live = {}

\* the phase of recreateSwapChain a call belongs to
Phase(call) ==
  CASE call = "vkWaitForFences" -> 1
    [] call = "vkDeviceWaitIdle" -> 2
    [] call = "vkGetPhysicalDeviceSurfaceCapabilitiesKHR" -> 3
    [] call \in DestroyNames -> 4
    [] OTHER -> 5

\* the builder a create call belongs to, in the order of the rebuild
BuilderOfCall(call) ==
  CASE call = "vkCreateSwapchainKHR" -> 1
    [] call \in {"vkCreateImageView", "vkCreateSemaphore", "vkCreateFence",
                 "vkCreateImage", "vkAllocateMemory"} -> 2
    [] call \in {"readFile vertex.spv", "readFile fragment.spv",
                 "vkCreateShaderModule"} -> 3
    [] call = "vkCreateRenderPass" -> 4
    [] call \in {"vkCreatePipelineLayout", "vkCreateGraphicsPipelines"} -> 5
    [] call = "vkCreateFramebuffer" -> 6
    [] call \in {"vkCreateCommandPool", "vkAllocateCommandBuffers"} -> 7
    [] call = "vkEndCommandBuffer" -> 8
    [] OTHER -> 0

\* C9: a valid resize waits for every slot's fence and for the device, then
\* recomputes the extent, then destroys, then rebuilds in forward order: no
\* destroy call precedes the end of the idle wait and no create call
\* precedes the end of the destroy phase.
ResizeOrder ==
  ResizeRan =>
    LET cs == drv.calls
        n == Len(cs)
    IN /\ \A i, j \in 1..n : i < j => Phase(cs[i][1]) <= Phase(cs[j][1])
       /\ \A i, j \in 1..n :
            (i < j /\ Phase(cs[i][1]) = 5 /\ Phase(cs[j][1]) = 5) =>
               BuilderOfCall(cs[i][1]) <= BuilderOfCall(cs[j][1])
       /\ (pc # "crashed") =>
            /\ Count(cs, "vkDeviceWaitIdle") = 1
            /\ Count(cs, "vkWaitForFences") = Count(cs, "vkDestroyFence")

\* C9 witness: a resize between frames has run all its phases and the
\* rebuild has succeeded.
ResizeDone ==
  /\ ResizeRan /\ pc = "glfwPollEvents" /\ failures = 0 /\ frames >= 1
  /\ drv.calls[Len(drv.calls)] = <<"vkEndCommandBuffer", NULL, "VK_SUCCESS", {}>>
  /\ \E i \in 1..Len(drv.calls) : drv.calls[i][1] = "vkDestroySwapchainKHR"

\* the objects cleanupSwapChain destroys
RebuiltKinds ==
  {"swapchain", "view", "imageAvailableSem", "renderFinishedSem", "fence",
   "msaaImage", "msaaMemory", "msaaView", "vertexShader", "fragShader",
   "renderPass", "pipelineLayout", "pipeline", "framebuffer", "commandBuffer"}

\* the position, in the rebuild, of the step that creates handle h
CreationIndex(h) ==
  LET steps == rebuildSteps(MaxImages)
  IN CHOOSE k \in 1..Len(steps) :
       /\ steps[k].kind = h[1]
       /\ steps[k].op = "alloc" \/ h[1] = "swapchain" \/ steps[k].idx = h[3]

\* the destroy calls of the last teardown on objects of the rebuild, with
\* the position of each object's creation
Teardown ==
  LET cs == SelectSeq(drv.calls,
              LAMBDA c : c[1] \in DestroyNames /\ c[2][1] \in RebuiltKinds)
  IN [i \in 1..Len(cs) |-> [h |-> cs[i][2], at |-> CreationIndex(cs[i][2])]]

\* C10 as stated: teardown is strict reverse-creation order, no object is
\* destroyed before an object that was created after it.
TeardownStrictReverse ==
  TeardownRan =>
    LET t == Teardown
    IN \A i, j \in 1..Len(t) :
         (i < j /\ t[i].h[2] = t[j].h[2]) => t[i].at >= t[j].at

\* C10 amended: teardown is reverse-creation order except among the
\* per-slot objects: an object destroyed before an object that was created
\* after it is a framebuffer or a slot's own object, and so is the other.
TeardownGroupReverse ==
  TeardownRan =>
    LET t == Teardown
    IN \A i, j \in 1..Len(t) :
         (i < j /\ t[i].h[2] = t[j].h[2] /\ t[i].at < t[j].at) =>
            \/ t[i].h[1] \in SlotFields /\ t[j].h[1] \in SlotFields
            \/ t[i].h[1] = "framebuffer" /\ t[j].h[1] = "framebuffer"

\* C10 witness: a complete teardown of a swapchain that rendered frames.
TeardownDone ==
  /\ pc = "done" /\ frames >= 1 /\ failures = 0
  /\ handler = "cleanup"
  /\ Len(Teardown) = 9 * K + 6

\* the generations of the handles the slots hold
SlotGenerations ==
  {h[2] : h \in {x \in UNION {{app.swapChain[i][f] : f \in SlotFields \cup {"image"}} :
                                i \in 1..K} : x # NULL /\ x # GARBAGE}}

\* C12: at most one swapchain generation exists: the live slot resources
\* and swapchain object belong to one generation, and the slots the program
\* holds are all of one generation (a resize replaces all slots or none).
OneGeneration ==
  /\ Cardinality({h[2] : h \in {x \in drv.live : x[1] \in RebuiltKinds}}) <= 1
  /\ Cardinality(SlotGenerations) <= 1

\* the submit of the last frame succeeded
SubmitSucceeded ==
  \E i \in 1..Len(drv.calls) :
    drv.calls[i][1] = "vkQueueSubmit" /\ drv.calls[i][3] = "VK_SUCCESS"

\* C13: whatever acquire and present returned, a frame whose submit
\* succeeded calls present, returns true to the loop, and leaves the cursor
\* advanced by one.
AcquirePresentNotFatal ==
  (FrameRan /\ pc # "crashed" /\ SubmitSucceeded) =>
     /\ running
     /\ Names(drv.calls)[Len(drv.calls)] = "vkQueuePresentKHR"
     /\ idx(app, renderCount) = (frames % K) + 1

\* C13 witness: acquire and present both failed in a frame, and the loop
\* has gone on to the next iteration.
LoopContinuesAfterErrors ==
  /\ FrameRan /\ running /\ pc = "renderFrame"
  /\ drv.calls[3][1] = "vkAcquireNextImageKHR"
  /\ drv.calls[3][3] = "VK_ERROR_OUT_OF_DATE_KHR"
  /\ drv.calls[5][1] = "vkQueuePresentKHR" /\ drv.calls[5][3] = "error"

\* C14: in every frame the fence waited, reset and armed, the semaphore
\* given to acquire and waited on by the submit, and the semaphore the
\* submit signals and present waits on are those of the slot at the cursor;
\* the command buffer submitted and the image presented are those of the
\* index acquire returned.
SlotAndIndexObjects ==
  (FrameRan /\ pc # "crashed" /\ SubmitSucceeded) =>
    LET e == app.swapChain[((frames - 1) % K) + 1]
        cs == drv.calls
        j == cs[3][2][3]
    IN /\ cs[1][2] = e.fence
       /\ cs[2][2] = e.fence
       /\ cs[3][4] = {app.vkSwapChain, e.imageAvailableSem}
       /\ \E s \in drv.inflight :
            /\ s.n = frames - 1
            /\ s.fence = e.fence
            /\ s.waitSem = e.imageAvailableSem
            /\ s.signalSem = e.renderFinishedSem
            /\ cs[4][2] = s.cb
            /\ cs[3][3] = "VK_SUCCESS" => s.cb = app.commandBuffers[j]
       /\ cs[5][4] = {app.vkSwapChain, e.renderFinishedSem}
       /\ cs[3][3] = "VK_SUCCESS" => cs[5][2] = cs[3][2]

\* C14 witness: a frame has acquired an image whose index is not the cursor
\* and has submitted and presented it.
IndexOffCursor ==
  /\ FrameRan /\ pc = "glfwPollEvents" /\ SubmitSucceeded
  /\ drv.calls[3][3] = "VK_SUCCESS"
  /\ drv.calls[3][2][3] # ((frames - 1) % K) + 1
  /\ drv.calls[5][3] = "VK_SUCCESS"

\* the fields of slot i that hold a live object
LiveFields(i) == {f \in SlotFields : app.swapChain[i][f] \in drv.live}

\* C15: the slots that renderFrame, waitForIdle and cleanupSwapChain can see
\* hold no partially initialised slot: in every slot either every field is
\* a live object or none is.
NoPartialSlot ==
  pc \in {"renderFrame", "glfwPollEvents", "waitForIdle", "cleanup"} =>
     \A i \in 1..K : LiveFields(i) \in {{}, SlotFields}

\* the driver calls of init() when every step succeeds, in program order
InitCalls(size) ==
  LET steps == SelectSeq(initSteps(size), LAMBDA x : x.op # "resize")
  IN [i \in 1..Len(steps) |-> steps[i].call]

\* C16: init() runs its steps in their fixed order, a step runs only if
\* every earlier step succeeded, and the frame loop is entered only if
\* every step succeeded.
InitStepsAllSucceed ==
  /\ handler = "init" =>
       \E size \in 1..MaxImages :
         LET cs == drv.calls
             n == Len(cs)
             all == InitCalls(size)
         IN /\ n <= Len(all)
            /\ \A i \in 1..n : cs[i][1] = all[i]
            /\ \A i \in 1..(n - 1) : cs[i][3] = "VK_SUCCESS"
            /\ pc = "renderFrame" <=> (n = Len(all) /\ cs[n][3] = "VK_SUCCESS")
            /\ pc = "returned" <=> cs[n][3] = "error"
  /\ pc = "returned" => frames = 0 /\ handler = "init"
  /\ frames > 0 => \E size \in 1..MaxImages :
                      StepHandles(Alloc("vkAllocateCommandBuffers", size), 0)
                        \subseteq drv.created

\* C16 witness: init() has failed at the pipeline, after the device, the
\* swapchain, the shaders and the render pass were created.
InitFailedAtPipeline ==
  /\ pc = "returned"
  /\ drv.calls[Len(drv.calls)] = <<"vkCreateGraphicsPipelines", NULL, "error", {}>>

\* C17: choosePhysicalDevice selects the first device of the enumeration
\* that is discrete, has the swapchain extension, has a graphics family and
\* a presentation family with a nonzero queue count, and has at least one
\* format and one present mode; a later such device is never selected, and
\* the selection fails exactly when the machine has no such device.
Satisfying(dev) ==
  /\ dev.deviceType = "DISCRETE_GPU"
  /\ "VK_KHR_swapchain" \in {dev.extensions[k] : k \in 1..Len(dev.extensions)}
  /\ \E j \in 1..Len(dev.queueFamilies) :
        dev.queueFamilies[j].graphics /\ dev.queueFamilies[j].queueCount # 0
  /\ \E j \in 1..Len(dev.queueFamilies) :
        dev.queueFamilies[j].present /\ dev.queueFamilies[j].queueCount # 0
  /\ dev.formats # <<>>
  /\ dev.presentModes # <<>>

SelectionDone == pc \in {"createLogicalDevice", "returned"}

FirstSatisfyingChosen ==
  SelectionDone =>
    LET good == {i \in 1..Len(devices) : Satisfying(devices[i])}
    IN /\ pc = "returned" <=> good = {}
       /\ pc = "createLogicalDevice" =>
            /\ devInfo.device \in good
            /\ \A i \in good : devInfo.device <= i

SecondSatisfyingPassedOver ==
  /\ pc = "createLogicalDevice"
  /\ Len(devices) = 2
  /\ Satisfying(devices[1]) /\ Satisfying(devices[2])
  /\ devices[1].capabilities # devices[2].capabilities
  /\ devInfo.device = 1

\* C18: no partial profile is exposed: when choosePhysicalDevice returns
\* failure devInfo holds nothing written from a rejected device, and when
\* it returns success every field of devInfo comes from the selected device.
NoPartialProfile ==
  /\ pc = "returned" => devInfo = NewDevInfo
  /\ pc = "createLogicalDevice" =>
       LET dev == devices[devInfo.device]
       IN /\ devInfo.deviceFeatures = dev.features
          /\ devInfo.capabilities = dev.capabilities
          /\ devInfo.format = chooseSwapSurfaceFormat(dev.formats)
          /\ devInfo.presentMode = choosePresentMode(dev.presentModes)
          /\ devInfo.families[1] \in graphicsFamilies(dev)
          /\ devInfo.families[2] \in presentationFamilies(dev)
          /\ devInfo.imageCount = imgCount(dev.capabilities)

\* C20: the selected image count is
\* min(max(1, minCount + 1), maxCount > 0 ? maxCount : minCount + 1) for all
\* minCount and maxCount, and it does not decrease when minCount grows.
ImageCountPolicy ==
  pc = "createLogicalDevice" =>
    LET lo == devInfo.capabilities.minImageCount
        hi == devInfo.capabilities.maxImageCount
    IN /\ devInfo.imageCount =
            Min(Max(1, Succ32(lo)), IF Less32(0, hi) THEN hi ELSE Succ32(lo))
       /\ \A more \in MinCounts :
            Less32(lo, more) =>
              ~Less32(imgCount([devInfo.capabilities EXCEPT !.minImageCount = more]),
                      devInfo.imageCount)

\* C19: after every recomputation of the extent, at startup and on each
\* resize, devInfo.extent lies within minImageExtent and maxImageExtent of
\* the capabilities, in width and in height.
ExtentClamped ==
  devInfo.device # 0 =>
    /\ ~Less32(devInfo.extent.width, devInfo.capabilities.minImageExtent.width)
    /\ ~Less32(devInfo.capabilities.maxImageExtent.width, devInfo.extent.width)
    /\ ~Less32(devInfo.extent.height, devInfo.capabilities.minImageExtent.height)
    /\ ~Less32(devInfo.capabilities.maxImageExtent.height, devInfo.extent.height)

\* the lists the surface of the selected device reports
SelectedModes == devices[devInfo.device].presentModes

SelectedFormats == devices[devInfo.device].formats

Elems(list) == {list[i] : i \in 1..Len(list)}

\* C21: for every list of present modes, in any order, choosePresentMode
\* returns MAILBOX if the list contains it, otherwise IMMEDIATE if the list
\* contains it, otherwise FIFO, also when the list does not contain FIFO.
PresentModePreference ==
  pc = "createLogicalDevice" =>
    devInfo.presentMode =
      IF "MAILBOX" \in Elems(SelectedModes) THEN "MAILBOX"
      ELSE IF "IMMEDIATE" \in Elems(SelectedModes) THEN "IMMEDIATE"
      ELSE "FIFO"

MailboxAfterImmediate ==
  /\ pc = "createLogicalDevice"
  /\ SelectedModes = <<"FIFO", "IMMEDIATE", "MAILBOX">>
  /\ devInfo.presentMode = "MAILBOX"

\* C22: for every format list of length 1 whose entry has the undefined
\* format, in any color space, chooseSwapSurfaceFormat returns the pair
\* (B8G8R8A8_UNORM, SRGB_NONLINEAR).
UndefinedGivesDefault ==
  (/\ pc = "createLogicalDevice"
   /\ Len(SelectedFormats) = 1
   /\ SelectedFormats[1].format = "UNDEFINED") =>
    devInfo.format = SurfaceFormat("B8G8R8A8_UNORM", "SRGB_NONLINEAR")

UndefinedInOtherSpace ==
  /\ pc = "createLogicalDevice"
  /\ SelectedFormats = <<SurfaceFormat("UNDEFINED", "DISPLAY_P3_NONLINEAR")>>
  /\ devInfo.format = SurfaceFormat("B8G8R8A8_UNORM", "SRGB_NONLINEAR")

\* C23: for every non-empty format list that contains an entry of format
\* B8G8R8A8_UNORM and color space SRGB_NONLINEAR, chooseSwapSurfaceFormat
\* returns that entry, whatever its position; for every other list, the
\* list of the single undefined entry excepted, it returns the first entry.
ExactEntryElseFirst ==
  pc = "createLogicalDevice" =>
    IF \E i \in 1..Len(SelectedFormats) :
         /\ SelectedFormats[i].format = "B8G8R8A8_UNORM"
         /\ SelectedFormats[i].colorSpace = "SRGB_NONLINEAR"
    THEN \E i \in 1..Len(SelectedFormats) :
           /\ SelectedFormats[i].format = "B8G8R8A8_UNORM"
           /\ SelectedFormats[i].colorSpace = "SRGB_NONLINEAR"
           /\ devInfo.format = SelectedFormats[i]
    ELSE \/ Len(SelectedFormats) = 1 /\ SelectedFormats[1].format = "UNDEFINED"
         \/ devInfo.format = SelectedFormats[1]

ExactEntryLast ==
  /\ pc = "createLogicalDevice"
  /\ SelectedFormats = <<SurfaceFormat("B8G8R8A8_UNORM", "DISPLAY_P3_NONLINEAR"),
                         SurfaceFormat("UNDEFINED", "SRGB_NONLINEAR"),
                         SurfaceFormat("B8G8R8A8_UNORM", "SRGB_NONLINEAR")>>
  /\ devInfo.format = SelectedFormats[3]

\* C24: the memory type of the memory of a slot's multisample image is the
\* lowest lazily allocated type whose bit is set in memoryTypeBits if there
\* is one, and otherwise the first type whose bit is set in memoryTypeBits;
\* the bit of the chosen type is always set in memoryTypeBits.
LowestOf(S) == CHOOSE j \in S : \A k \in S : j <= k

MemoryTypeCompatible ==
  \A a \in drv.allocations :
    LET dev == devices[devInfo.device]
        usable == {j \in dev.memoryTypeBits : j < Len(dev.memoryTypes)}
        lazy == {j \in usable : dev.memoryTypes[j + 1].lazilyAllocated}
    IN /\ a[2] = IF lazy # {} THEN LowestOf(lazy) ELSE LowestOf(usable)
       /\ a[2] \in dev.memoryTypeBits

\* createSwapChain has returned true in the handler that ran last: the
\* builder that follows it was called
SwapChainBuilt ==
  /\ handler \in {"init", "onResize"}
  /\ pc # "crashed"
  /\ \E i \in 1..Len(drv.calls) : drv.calls[i][1] = "readFile vertex.spv"

\* the whole chain of builders has returned true in the handler that ran
\* last
BuildSucceeded ==
  /\ handler \in {"init", "onResize"}
  /\ pc # "crashed"
  /\ drv.calls # <<>>
  /\ drv.calls[Len(drv.calls)] = <<"vkEndCommandBuffer", NULL, "VK_SUCCESS", {}>>

\* the image count vkGetSwapchainImagesKHR reports for the swapchain
ReportedImages == app.vkSwapChain[3]

\* C25 as stated: after every successful swapchain build the number of
\* slots equals devInfo.imageCount, also when the driver creates more images
\* than were requested.
SlotsEqualRequested == SwapChainBuilt => K = devInfo.imageCount

\* C25 amended: after every successful swapchain build the number of slots
\* equals the image count the driver reports, which is at least
\* devInfo.imageCount.
SlotsEqualReported ==
  SwapChainBuilt => K = ReportedImages /\ K >= devInfo.imageCount

MoreSlotsThanRequested == SwapChainBuilt /\ K > devInfo.imageCount

\* C26: after every successful build, at startup or on a resize, the slot
\* sequence, the framebuffer list and the command buffer list all have the
\* length the driver reports for the new swapchain, so every image index
\* the driver can return is inside all three.
ListsSizedToSwapchain ==
  BuildSucceeded =>
    /\ Len(app.swapChain) = ReportedImages
    /\ Len(app.frameBuffers) = ReportedImages
    /\ Len(app.commandBuffers) = ReportedImages
    /\ \A j \in ImageIndices(app, "VK_SUCCESS") :
         /\ j + 1 \in DOMAIN app.swapChain
         /\ j + 1 \in DOMAIN app.frameBuffers
         /\ j + 1 \in DOMAIN app.commandBuffers

ResizeBuiltMoreThanRequested ==
  /\ BuildSucceeded /\ handler = "onResize" /\ frames >= 1
  /\ ReportedImages > devInfo.imageCount
  /\ Len(app.commandBuffers) = MaxImages

\* C27: a resize leaves the physical and the logical device handle, the two
\* queue family indices, the two queues and the frame counter as they were
\* before recreateSwapChain; the frame counter is not reset.  (gen counts
\* the calls of recreateSwapChain: the steps that add to it are the resizes.)
ResizeKeepsLifetimeState ==
  [][gen' = gen + 1 =>
       /\ devInfo'.device = devInfo.device
       /\ app'.device = app.device
       /\ devInfo'.families = devInfo.families
       /\ app'.graphicsQueue = app.graphicsQueue
       /\ app'.presentationQueue = app.presentationQueue
       /\ renderCount' = renderCount]_vars

ResizeAfterTwoFrames ==
  /\ ResizeRan /\ BuildSucceeded
  /\ renderCount = 2
  /\ app.device = H("device", 0, 0)
  /\ app.graphicsQueue = <<"queue", 0, 0>>

\* no submission has armed fence h and it is signaled: a wait on it returns
Unarmed(d, h) ==
  /\ h \in d.live
  /\ h \in d.signaled
  /\ \A sub \in d.inflight : sub.fence # h

\* C28: at startup and after each rebuild every slot's fence is signaled
\* and both its semaphores are unsignaled, and a wait of renderFrame on a
\* fence that no submission has armed returns at once with VK_SUCCESS.
FreshSlotsDoNotBlock ==
  [][/\ BuildSucceeded' =>
          \A i \in 1..Len(app'.swapChain) :
            /\ Unarmed(drv', app'.swapChain[i].fence)
            /\ app'.swapChain[i].imageAvailableSem \in drv'.live \ drv'.signaled
            /\ app'.swapChain[i].renderFinishedSem \in drv'.live \ drv'.signaled
     /\ (/\ frames' = frames + 1
         /\ Unarmed(drv, app.swapChain[idx(app, renderCount)].fence)) =>
          /\ drv'.calls[1][1] = "vkWaitForFences"
          /\ drv'.calls[1][2] = app.swapChain[idx(app, renderCount)].fence
          /\ drv'.calls[1][3] = "VK_SUCCESS"]_vars

\* C28 witness: after a rebuild of two slots, two frames have run and both
\* submissions are still executing: the first wait on each slot of the new
\* generation has returned with nothing to wait for.
NewGenerationFirstWaits ==
  /\ gen = 1 /\ FrameRan /\ K = 2
  /\ Cardinality(Pending(drv)) = 2
  /\ \A i \in 1..K : app.swapChain[i].fence[2] = 1
  /\ \A i \in 1..K : \E sub \in Pending(drv) : sub.fence = app.swapChain[i].fence

\* C29: every setup failure prints a diagnostic before the program stops,
\* and when devices are enumerated but none satisfies the requirements the
\* diagnostic is one of its own, distinct from that of a machine without
\* devices.
SetupFailureDiagnosed ==
  pc = "returned" =>
    /\ printed # <<>>
    /\ (/\ drv.calls[Len(drv.calls)][1] = "choosePhysicalDevice"
        /\ devices # <<>>) => printed # <<"Found no physical device">>

\* C30: every swapchain is created with exclusive sharing and no family
\* list exactly when the graphics and the presentation family index
\* coincide, and otherwise with concurrent sharing across exactly those two
\* families; the logical device requests one queue when they coincide and
\* two, one of each of the two families, otherwise.
SharingFollowsFamilies ==
  \A c \in drv.createInfos :
    LET graphics == devInfo.families[1]
        presentation == devInfo.families[2]
    IN /\ c[1][1] = "swapchain" =>
            IF graphics = presentation
            THEN c[2] = [imageSharingMode |-> "EXCLUSIVE",
                         queueFamilyIndices |-> <<>>]
            ELSE c[2] = [imageSharingMode |-> "CONCURRENT",
                         queueFamilyIndices |-> <<graphics, presentation>>]
       /\ c[1][1] = "device" =>
            IF graphics = presentation THEN c[2] = <<graphics>>
            ELSE c[2] = <<graphics, presentation>>

\* a resize has built a swapchain shared by two different families
ResizedSwapchainConcurrent ==
  /\ ResizeRan /\ BuildSucceeded
  /\ devInfo.families[1] # devInfo.families[2]
  /\ \E c \in drv.createInfos :
       /\ c[1][1] = "swapchain" /\ c[1][2] = 1
       /\ c[2].imageSharingMode = "CONCURRENT"
  /\ \E c \in drv.createInfos : c[1][1] = "device" /\ Len(c[2]) = 2

\* C31: once the main loop is left (close request, escape key, or
\* renderFrame returning false after a failed submit) waitForIdle returns
\* and run() goes on to cleanup, provided the GPU completes every
\* submission it accepted (none of them waits on a semaphore that is never
\* signaled).
ShutdownTerminates ==
  (pc = "waitForIdle" /\ \A s \in drv.inflight : ~s.blocked)
    ~> (pc \in {"cleanup", "done", "crashed"})

\* C32: the command buffer a frame submits and the image it presents are
\* those of an index that a successful acquire of the same frame returned;
\* a frame whose acquire did not succeed neither submits nor presents.
IndexFromAcquire ==
  FrameRan =>
    \A i \in 1..Len(drv.calls) :
      drv.calls[i][1] \in {"vkQueueSubmit", "vkQueuePresentKHR"} =>
        \E k \in 1..(i - 1) :
          /\ drv.calls[k][1] = "vkAcquireNextImageKHR"
          /\ drv.calls[k][3] = "VK_SUCCESS"
          /\ drv.calls[k][2][3] \in 1..Len(app.commandBuffers)

\* C33: across resize notifications, also those whose rebuild fails partway,
\* and the final shutdown, no destroy or free call is handed a handle that
\* was already destroyed, and renderFrame and waitForIdle use no handle
\* after it was destroyed.
NoUseAfterDestroy == \A m \in drv.misuse : m[2] # "destroyed"

\* C34: from each call of renderFrame to the next the ring index advances
\* by exactly one modulo the slot count K, also where the 32-bit counter
\* wraps from 0xFFFFFFFF to 0, for every K.
CursorAdvancesByOne ==
  [][renderCount' # renderCount =>
       idx(app', renderCount') = (idx(app, renderCount) % K) + 1]_vars

\* the generations of the objects the calls of the last handler were given
UsedGenerations ==
  {h[2] : h \in {x \in UNION {drv.calls[i][4] : i \in 1..Len(drv.calls)} :
                   x[1] \in RebuiltKinds}}

\* C35: no rebuild runs inside a frame: size notifications are delivered in
\* the poll step after renderFrame has returned, and the wait, the reset,
\* the acquire, the submit and the present of a frame are given the slot,
\* the command buffer and the swapchain of one single generation.
FrameOfOneGeneration ==
  /\ [][/\ gen' # gen => pc = "glfwPollEvents" /\ frames' = frames
        /\ frames' # frames => gen' = gen /\ app' = app]_vars
  /\ [](FrameRan => Cardinality(UsedGenerations) <= 1)

\* C36: no binary semaphore of a slot is signaled while it still holds a
\* signal: when a frame uses slot s again, the present of the previous use
\* has consumed the signal of its renderFinished semaphore before the new
\* submit signals it, and its imageAvailable semaphore holds no signal when
\* it is handed to acquire.
NoDoubleSignal ==
  \A m \in drv.misuse : m[2] \notin {"signaled twice", "signal pending"}

\* C37: for the selected device the recorded graphics family is the
\* highest-indexed queue family with a nonzero queue count and the graphics
\* bit, and the recorded presentation family is the highest-indexed one
\* with a nonzero queue count that can present to the surface, each chosen
\* without regard to the other; a family with queue count 0 is never
\* recorded.
FamiliesHighestIndexed ==
  pc = "createLogicalDevice" =>
    LET fam == devices[devInfo.device].queueFamilies
        g == devInfo.families[1] + 1
        p == devInfo.families[2] + 1
    IN /\ g \in 1..Len(fam) /\ p \in 1..Len(fam)
       /\ fam[g].queueCount # 0 /\ fam[g].graphics
       /\ \A k \in (g + 1)..Len(fam) : fam[k].queueCount = 0 \/ ~fam[k].graphics
       /\ fam[p].queueCount # 0 /\ fam[p].present
       /\ \A k \in (p + 1)..Len(fam) : fam[k].queueCount = 0 \/ ~fam[k].present

\* C37 witness: the selected device has a family without queues that could
\* do both, a graphics family below the recorded one, and the recorded
\* presentation family lies below the recorded graphics family.
FamiliesPastEmptyFamily ==
  /\ pc = "createLogicalDevice"
  /\ devInfo.families = <<3, 2>>
  /\ LET fam == devices[devInfo.device].queueFamilies
     IN /\ fam[2].queueCount = 0 /\ fam[2].graphics /\ fam[2].present
        /\ fam[1].queueCount # 0 /\ fam[1].graphics

\* ================================================ src/vulkantest.cpp: main
\* The single-function program.  Its locals are held in the variables of
\* the class: devInfo holds physicalDevice, deviceFeatures,
\* deviceQueuesFamilies and swapChainDetails, app holds the handles
\* (device is logicalDevice, vkSwapChain is swapChain, swapChain[i].view is
\* imageViews[i]).
\* The locals in front of the device loop: physicalDevice is
\* VK_NULL_HANDLE (0: the handle of a device is its position in the
\* enumeration), the families are -1 and set is false; the other members
\* have no initialiser.  surfaceQueries notes, for each query of the
\* surface, the call and the handle it was made with.
MainLocals ==
  [physicalDevice |-> 0, deviceFeatures |-> 0,
   deviceQueuesFamilies |-> [graphicsFamily |-> -1, presentationFamily |-> -1],
   swapChainDetails |->
     [format |-> [format |-> "unset", colorSpace |-> "unset"],
      presentMode |-> "unset", extent |-> NoExtent, imageCount |-> 0,
      set |-> FALSE],
   surfaceQueries |-> {}, answeredBy |-> {}, faulted |-> FALSE]

\* QueueFamilies::hasAll()
hasAll(q) == q.graphicsFamily # -1 /\ q.presentationFamily # -1

\* The body of the family loop from vkGetPhysicalDeviceSurfaceCapabilitiesKHR
\* on: each query is made with physicalDevice.  A query of the surface made
\* with a handle that is no physical device has undefined behaviour.  Its
\* outcomes: the process faults in the call (answer 0), or the call is
\* answered with what the driver holds for one of its devices (answer k:
\* the device at position k).
surfaceDetails(loc, devs, answer) ==
  LET h == loc.physicalDevice
      k == IF h \in 1..Len(devs) THEN h ELSE answer
      asked(l, call) ==
        [l EXCEPT !.surfaceQueries = @ \cup {<<call, h>>},
                  !.answeredBy = @ \cup {k}]
      capabilities == devs[k].capabilities
      extent ==
        IF capabilities.currentExtent.width # UINT_MAX
        THEN capabilities.currentExtent
        ELSE [width |-> Max(capabilities.minImageExtent.width,
                            Min(capabilities.maxImageExtent.width, 800)),
              height |-> Max(capabilities.minImageExtent.height,
                             Min(capabilities.maxImageExtent.height, 600))]
      l1 == [asked(loc, "vkGetPhysicalDeviceSurfaceCapabilitiesKHR")
               EXCEPT !.swapChainDetails.extent = extent]
      l2 == asked(l1, "vkGetPhysicalDeviceSurfaceFormatsKHR")
      l3 == [asked(l2, "vkGetPhysicalDeviceSurfacePresentModesKHR")
               EXCEPT !.swapChainDetails.format = chooseSwapSurfaceFormat(devs[k].formats)]
  IN IF k = 0
     THEN [loc EXCEPT !.faulted = TRUE,
                      !.surfaceQueries =
                         @ \cup {<<"vkGetPhysicalDeviceSurfaceCapabilitiesKHR", h>>}]
     ELSE IF Len(devs[k].formats) = 0 THEN l2
     ELSE IF Len(devs[k].presentModes) = 0 THEN l3
     ELSE [l3 EXCEPT
             !.swapChainDetails.presentMode = choosePresentMode(devs[k].presentModes),
             !.swapChainDetails.imageCount = imgCount(devs[k].capabilities),
             !.swapChainDetails.set = TRUE]

\* the loop over the queue families of devices[i] from family j on (the
\* first family is 1 here and 0 in the program)
RECURSIVE mainFamilyLoop(_, _, _, _, _)
mainFamilyLoop(loc, devs, i, j, answer) ==
  IF j > Len(devs[i].queueFamilies) \/ loc.faulted THEN loc
  ELSE LET fam == devs[i].queueFamilies[j]
           found ==
             [loc EXCEPT
                !.deviceQueuesFamilies.graphicsFamily =
                   IF fam.graphics THEN j - 1 ELSE @,
                !.deviceQueuesFamilies.presentationFamily =
                   IF fam.present THEN j - 1 ELSE @]
       IN IF fam.queueCount <= 0 THEN mainFamilyLoop(loc, devs, i, j + 1, answer)
          ELSE IF Len(devs[i].extensions) = 0
          THEN mainFamilyLoop(loc, devs, i, j + 1, answer)
          ELSE IF ~hasSwapChain(devs[i])
          THEN mainFamilyLoop(loc, devs, i, j + 1, answer)
          ELSE IF ~hasAll(found.deviceQueuesFamilies)
          THEN mainFamilyLoop(found, devs, i, j + 1, answer)
          ELSE mainFamilyLoop(surfaceDetails(found, devs, answer), devs, i, j + 1,
                              answer)

\* the loop over the devices from devices[i] on
RECURSIVE mainDeviceLoop(_, _, _, _)
mainDeviceLoop(loc, devs, i, answer) ==
  IF i > Len(devs) THEN loc
  ELSE IF devs[i].deviceType # "DISCRETE_GPU"
  THEN mainDeviceLoop(loc, devs, i + 1, answer)
  ELSE LET r == mainFamilyLoop([loc EXCEPT !.deviceFeatures = devs[i].features],
                               devs, i, 1, answer)
       IN IF r.faulted THEN r
          ELSE IF r.swapChainDetails.set THEN [r EXCEPT !.physicalDevice = i]
          ELSE mainDeviceLoop(r, devs, i + 1, answer)

\* "Choose physical device"
mainSelect(loc, devs, answer) ==
  IF Len(devs) = 0 THEN loc ELSE mainDeviceLoop(loc, devs, 1, answer)

\* the steps of main in front of the selection
mainStart == initGlFw \o initVulkanInstance \o createSurface

\* main has come to the selection on one of the machines: the window, the
\* instance and the surface exist
MainSelectInit ==
  /\ pc = "main: choose physical device"
  /\ LET r == RunSteps(mainStart, 1, Len(mainStart),
                       [app |-> NewApp, drv |-> NewDriver], 0)
     IN app = r.app /\ drv = r.drv
  /\ devInfo = MainLocals
  /\ renderCount = 0
  /\ running = TRUE
  /\ caps = StdCaps
  /\ devices \in Machines
  /\ gen = 0
  /\ frames = 0
  /\ issued = [c \in FrameCalls |-> 0]
  /\ failedAt = -1
  /\ failures = 0
  /\ handler = "main"
  /\ printed = <<>>

\* the selection, and the return 1 that follows it when no device is set
mainChoosePhysicalDevice ==
  /\ pc = "main: choose physical device"
  /\ \E answer \in 0..Len(devices) :
       LET loc == mainSelect(devInfo, devices, answer)
       IN /\ devInfo' = loc
          /\ drv' = [drv EXCEPT !.crashed = loc.faulted]
          /\ printed' = IF loc.faulted \/ loc.swapChainDetails.set THEN <<>>
                        ELSE IF Len(devices) = 0 THEN <<"Found no physical device">>
                        ELSE <<"Could not find a suitable device">>
          /\ pc' = IF loc.faulted THEN "crashed"
                   ELSE IF loc.swapChainDetails.set
                   THEN "main: create logical device"
                   ELSE "returned"
  /\ UNCHANGED <<app, renderCount, running, caps, devices, gen, frames, issued,
                 failedAt, failures, handler>>

MainSelectSpec == MainSelectInit /\ [][mainChoosePhysicalDevice]_vars

\* main has selected a device
MainSelected ==
  /\ handler = "main"
  /\ pc \notin {"main", "main: choose physical device", "returned", "crashed"}

\* C38: in the single-function program, whenever a device is selected the
\* recorded graphics and presentation family were both found on the
\* selected device, and every query of the surface that filled the
\* swapchain details was made on the selected device; nothing recorded
\* on an earlier, rejected device carries over.
SelectionOfSelectedDevice ==
  MainSelected =>
    /\ devInfo.deviceQueuesFamilies.graphicsFamily
         \in graphicsFamilies(devices[devInfo.physicalDevice])
    /\ devInfo.deviceQueuesFamilies.presentationFamily
         \in presentationFamilies(devices[devInfo.physicalDevice])
    /\ \A q \in devInfo.surfaceQueries : q[2] = devInfo.physicalDevice
    /\ devInfo.answeredBy \subseteq {devInfo.physicalDevice}

\* ------------------------------------------------ main: setup and frames
MaxMainFrames == 2

\* the handles main declares without an initialiser, the two semaphores
\* of the frame loop among them
MainApp ==
  [f \in DOMAIN NewApp \cup {"imageAvailableSemaphore", "renderFinishedSemaphore"} |->
     IF f \in DOMAIN NewApp THEN NewApp[f] ELSE GARBAGE]

\* vkCmdBindPipeline(commandBuffers[i], ..., graphicsPipeline) while
\* command buffer i is recorded
Record(call, i) ==
  [op |-> "record", call |-> call, kind |-> "none", field |-> "none", idx |-> i]

\* the steps of main from "Create logical device" to the semaphores;
\* vkGetSwapchainImagesKHR fills swapChainImages
mainSteps(size) ==
  createLogicalDevice
  \o << Create("vkCreateSwapchainKHR", "swapchain", "vkSwapChain", size),
        ResizeStep("swapChain", size) >>
  \o [i \in 1..size |-> Create("vkCreateImageView", "view", "view", i)]
  \o << Create("vkCreateShaderModule", "vertexShader", "vertexShader", 0),
        Create("vkCreateShaderModule", "fragShader", "fragShader", 0) >>
  \o createRenderPass
  \o createPipeline
  \o createFrameBuffers(size)
  \o createCommandBuffers(size)
  \o Flatten([i \in 1..size |->
                << Record("vkCmdBindPipeline", i), Check("vkEndCommandBuffer") >>])
  \o << Create("vkCreateSemaphore", "semaphore", "imageAvailableSemaphore", 0),
        Create("vkCreateSemaphore", "semaphore", "renderFinishedSemaphore", 1) >>

\* the line main prints for a result that is not VK_SUCCESS
mainFailureLine(s) ==
  CASE s.call = "glfwVulkanSupported" ->
         "glfw does not support vulkan! Upgrade to the latest version"
    [] s.call = "vkCreateInstance" -> "vkCreateInstance failed with"
    [] s.call = "glfwCreateWindowSurface" ->
         "failed to create surface: glfwCreateWindowSurface() failed with"
    [] s.call = "vkCreateDevice" -> "vkCreateDevice failed with"
    [] s.call = "vkCreateSwapchainKHR" -> "vkCreateSwapchainKHR failed with"
    [] s.call = "vkCreateImageView" -> "vkCreateImageView failed with"
    [] s.call = "vkCreateShaderModule" -> "vkCreateShaderModule failed with"
    [] s.call = "vkCreateRenderPass" -> "vkCreateRenderPass failed with"
    [] s.call = "vkCreatePipelineLayout" -> "vkCreatePipelineLayout failed with ret"
    [] s.call = "vkCreateGraphicsPipelines" -> "vkCreateGraphicsPipelines failed with ret"
    [] s.call = "vkCreateFramebuffer" -> "vkCreateFramebuffer failed with"
    [] s.call = "vkCreateCommandPool" -> "vkCreateCommandPool failed with"
    [] s.call = "vkAllocateCommandBuffers" -> "vkCreateCommandPool failed with"
    [] s.call = "vkEndCommandBuffer" -> "vkEndCommandBuffer failed with"
    [] s.call = "vkCreateSemaphore" -> "vkCreateSemaphore failed with"
    [] OTHER -> "failed"

\* a creation that has failed: the call is logged with its error and the
\* line is printed; the handle is VK_NULL_HANDLE when the driver wrote it
\* and is left as it was when it did not
failedCreate(r, s, written) ==
  [r EXCEPT !.drv.calls = Append(@, <<s.call, NULL, "error", {}>>),
            !.printed = Append(@, mainFailureLine(s)),
            !.app = IF s.op = "create" /\ s.field \in DOMAIN r.app /\ written
                    THEN [@ EXCEPT ![s.field] = NULL] ELSE @]

\* one step of main; fails: the driver fails this call.  The results of
\* vkCreatePipelineLayout and vkCreateGraphicsPipelines are printed and
\* main does not return on them
mainStep(r, s, fails, written, mode) ==
  CASE s.op = "record" ->
         [r EXCEPT !.drv = Enter(r.drv, s.call, r.app.commandBuffers[s.idx],
                                 {r.app.commandBuffers[s.idx], r.app.graphicsPipeline},
                                 mode, "void")]
    [] s.call = "vkCreateGraphicsPipelines" /\ r.app.pipelineLayout \notin r.drv.live ->
         \* pipelineInfo.layout is no pipeline layout: the call faults or
         \* is rejected
         LET e == [r EXCEPT !.drv = Enter(r.drv, s.call, NULL, {r.app.pipelineLayout},
                                          mode, "error")]
         IN IF e.drv.crashed THEN e
            ELSE [e EXCEPT !.printed = Append(@, mainFailureLine(s)),
                           !.app.graphicsPipeline = IF written THEN NULL ELSE @]
    [] s.op # "record" /\ fails /\ s.call = "vkCreatePipelineLayout" ->
         failedCreate(r, s, written)
    [] s.op # "record" /\ fails /\ s.call = "vkCreateGraphicsPipelines"
         /\ r.app.pipelineLayout \in r.drv.live ->
         failedCreate(r, s, written)
    [] s.op # "record" /\ fails
         /\ s.call \notin {"vkCreatePipelineLayout", "vkCreateGraphicsPipelines"} ->
         [failedCreate(r, s, written) EXCEPT !.returned = TRUE]
    [] OTHER ->
         [r EXCEPT !.app = StepApp(r.app, s, 0), !.drv = StepDriver(r.drv, s, 0)]

\* the steps from step k on; step f fails
RECURSIVE mainRun(_, _, _, _, _, _)
mainRun(steps, k, r, f, written, mode) ==
  IF k > Len(steps) \/ r.drv.crashed \/ r.returned THEN r
  ELSE mainRun(steps, k + 1, mainStep(r, steps[k], k = f, written, mode),
               f, written, mode)

\* vkQueueSubmit(graphicsQueue, 1, &submitInfo, VK_NULL_HANDLE): no fence
mainQueueSubmit(d, cb, waitSem, signalSem, ok, blocked, n, mode) ==
  IF d.crashed \/ d.stuck THEN d
  ELSE LET hs == {cb, waitSem, signalSem}
           e == Enter(d, "vkQueueSubmit", cb, hs, mode,
                      IF SubmitOk(d, hs, ok, mode) THEN "VK_SUCCESS" ELSE "error")
       IN IF SubmitOk(d, hs, ok, mode)
          THEN [e EXCEPT !.inflight = @ \cup
                  {[fence |-> NULL, cb |-> cb, waitSem |-> waitSem,
                    signalSem |-> signalSem, done |-> FALSE,
                    blocked |-> blocked, n |-> n]}]
          ELSE e

\* one pass of while(1) from vkAcquireNextImageKHR to vkDeviceWaitIdle;
\* ret is FALSE when main returns 1.  The GPU runs the submission that can
\* run while main waits for the device to be idle
mainLoopBody(st, d, n, res, j, ok, presentOk, mode) ==
  LET cb == commandBufferAt(st, j)
      hs == {cb, st.imageAvailableSemaphore, st.renderFinishedSemaphore}
      d1 == vkAcquireNextImageKHR(d, st.vkSwapChain, st.imageAvailableSemaphore,
                                  res, j, mode)
      d2 == mainQueueSubmit(d1, cb, st.imageAvailableSemaphore,
                            st.renderFinishedSemaphore, ok, ~Acquired(res), n, mode)
      submitted == ~d1.crashed /\ SubmitOk(d1, hs, ok, mode)
      d3 == vkQueuePresentKHR(d2, st.vkSwapChain, st.renderFinishedSemaphore, j,
                              Acquired(res), presentOk, FALSE, mode)
      finished == IF Runnable(d3) = {} THEN d3
                  ELSE complete(d3, CHOOSE s \in Runnable(d3) : TRUE)
      d4 == IF d3.crashed THEN d3 ELSE vkDeviceWaitIdle(finished, st.device, mode)
  IN IF submitted THEN [ret |-> TRUE, drv |-> d4] ELSE [ret |-> FALSE, drv |-> d2]

\* the destroy calls that follow the loop, in program order
mainCleanupCalls(st) ==
  << <<"vkDestroyCommandPool", st.commandPool>> >>
  \o [i \in 1..Len(st.frameBuffers) |-> <<"vkDestroyFramebuffer", st.frameBuffers[i]>>]
  \o << <<"vkDestroyPipeline", st.graphicsPipeline>>,
        <<"vkDestroyPipelineLayout", st.pipelineLayout>>,
        <<"vkDestroyRenderPass", st.renderPass>>,
        <<"vkDestroyShaderModule", st.fragShader>>,
        <<"vkDestroyShaderModule", st.vertexShader>> >>
  \o [i \in 1..Len(st.swapChain) |-> <<"vkDestroyImageView", st.swapChain[i].view>>]
  \o << <<"vkDestroySwapchainKHR", st.vkSwapChain>>,
        <<"vkDestroySurfaceKHR", st.surface>>,
        <<"vkDestroyDevice", st.device>>,
        <<"vkDestroyInstance", st.instance>>,
        <<"glfwDestroyWindow", st.window>> >>

\* the machines main is run on: no device, one usable device, an
\* integrated device in front of a usable one, and a device with a
\* graphics family only in front of one with a presentation family only
MainMachines ==
  {<<>>,
   Enumerate(<<GoodDevice(StdCaps)>>),
   Enumerate(<<[GoodDevice(StdCaps) EXCEPT !.deviceType = "INTEGRATED_GPU"],
               GoodDevice(StdCaps)>>),
   Enumerate(<<[GoodDevice(StdCaps) EXCEPT !.queueFamilies = <<Family(1, TRUE, FALSE)>>],
               [GoodDevice(StdCaps) EXCEPT !.queueFamilies = <<Family(1, FALSE, TRUE)>>]>>)}

\* main is entered
MainInit ==
  /\ pc = "main"
  /\ app = MainApp
  /\ drv = NewDriver
  /\ devInfo = MainLocals
  /\ renderCount = 0
  /\ running = TRUE
  /\ caps = StdCaps
  /\ devices \in MainMachines
  /\ gen = 0
  /\ frames = 0
  /\ issued = [c \in FrameCalls |-> 0]
  /\ failedAt = -1
  /\ failures = 0
  /\ handler = "main"
  /\ printed = <<>>

\* glfw, the instance and the surface
mainBegin ==
  /\ pc = "main"
  /\ \E f \in FailPoints(mainStart) :
       LET r == Build(mainStart, f, app, drv, 0)
       IN /\ app' = r.app
          /\ drv' = r.drv
          /\ printed' = IF r.ok THEN <<>> ELSE <<mainFailureLine(mainStart[f])>>
          /\ pc' = IF r.ok THEN "main: choose physical device" ELSE "returned"
  /\ UNCHANGED <<devInfo, renderCount, running, caps, devices, gen, frames, issued,
                 failedAt, failures, handler>>

\* from "Create logical device" to the two semaphores: f is the call
\* that fails, one of those whose result main tests; vkGetDeviceQueue
\* follows vkCreateDevice
mainSetup ==
  /\ pc = "main: create logical device"
  /\ \E f \in 1..(Len(mainSteps(devInfo.swapChainDetails.imageCount)) + 1),
        written \in BOOLEAN, mode \in Modes :
       LET steps == mainSteps(devInfo.swapChainDetails.imageCount)
           r == mainRun(steps, 1,
                        [app |-> app, drv |-> drv, returned |-> FALSE,
                         printed |-> <<>>],
                        f, written, mode)
       IN /\ f <= Len(steps) => steps[f].op \in {"create", "check", "alloc"}
          /\ app' = IF r.app.device \in r.drv.live
                    THEN [r.app EXCEPT
                            !.graphicsQueue =
                               <<"queue", devInfo.deviceQueuesFamilies.graphicsFamily, 0>>,
                            !.presentationQueue =
                               <<"queue", devInfo.deviceQueuesFamilies.presentationFamily, 0>>]
                    ELSE r.app
          /\ drv' = r.drv
          /\ printed' = r.printed
          /\ pc' = IF r.drv.crashed THEN "crashed"
                   ELSE IF r.returned THEN "returned"
                   ELSE "main: loop"
  /\ UNCHANGED <<devInfo, renderCount, running, caps, devices, gen, frames, issued,
                 failedAt, failures, handler>>

\* one pass of while(1)
mainFrame ==
  /\ pc = "main: loop"
  /\ frames < MaxMainFrames
  /\ \E res \in AcquireResults, ok \in BOOLEAN, presentOk \in BOOLEAN,
        quit \in BOOLEAN, mode \in Modes :
     \E j \in ImageIndices(app, res) :
       LET r == mainLoopBody(app, drv, frames, res, j, ok, presentOk, mode)
       IN /\ drv' = r.drv
          /\ running' = IF r.ret /\ ~r.drv.crashed /\ ~r.drv.stuck THEN ~quit
                        ELSE running
          /\ printed' = IF r.ret \/ r.drv.crashed THEN <<>>
                        ELSE <<"vkQueueSubmit failed with">>
          /\ pc' = IF r.drv.crashed THEN "crashed"
                   ELSE IF ~r.ret THEN "returned"
                   ELSE IF r.drv.stuck THEN "vkDeviceWaitIdle"
                   ELSE IF quit THEN "main: cleanup"
                   ELSE "main: loop"
  /\ frames' = frames + 1
  /\ UNCHANGED <<app, devInfo, renderCount, caps, devices, gen, issued, failedAt,
                 failures, handler>>

\* the destroy calls, glfwTerminate and return 0
mainCleanup ==
  /\ pc = "main: cleanup"
  /\ \E mode \in Modes :
       LET d == DestroyAll(drv, mainCleanupCalls(app), mode)
       IN /\ drv' = d
          /\ pc' = IF d.crashed THEN "crashed" ELSE "returned"
  /\ printed' = <<>>
  /\ UNCHANGED <<app, devInfo, renderCount, running, caps, devices, gen, frames,
                 issued, failedAt, failures, handler>>

MainNext ==
  \/ mainBegin
  \/ mainChoosePhysicalDevice
  \/ mainSetup
  \/ mainFrame
  \/ mainCleanup

MainSpec == MainInit /\ [][MainNext]_vars

\* the creation of the pipeline layout or of the pipeline has failed
PipelineFailed(c) ==
  c[1] \in {"vkCreatePipelineLayout", "vkCreateGraphicsPipelines"} /\ c[3] = "error"

\* the calls that make or use a framebuffer or a command buffer, and the
\* submission of a frame
PipelineUsers ==
  {"vkCreateFramebuffer", "vkCreateCommandPool", "vkAllocateCommandBuffers",
   "vkCmdBindPipeline", "vkEndCommandBuffer", "vkQueueSubmit"}

\* C39: in the single-function program a failure to create the pipeline
\* layout or the graphics pipeline is fatal at setup: once one of the two
\* creations has failed, the program makes no framebuffer, records no
\* command buffer and submits no frame.
PipelineFailureFatal ==
  handler = "main" =>
    \A a \in 1..Len(drv.calls) :
      PipelineFailed(drv.calls[a]) =>
        \A b \in (a + 1)..Len(drv.calls) : drv.calls[b][1] \notin PipelineUsers

====
